---- MODULE Spec2Model ----
(***************************************************************************)
(* A model of lintrunner-adapters: the process runner (run_command), the   *)
(* check functions of the adapters, and the thread-pool driver that fans   *)
(* the check function out over the files and prints the Messages.          *)
(*                                                                         *)
(* Byte strings are sequences of byte values; text (str) is a sequence of  *)
(* one-character strings.  The byte 255 never occurs in valid UTF-8: a     *)
(* byte string holding it cannot be decoded.  An Optional value is a       *)
(* sequence of length at most one: None is <<>>, a present x is <<x>>.     *)
(***************************************************************************)
EXTENDS Integers, Sequences, FiniteSets, TLC

\* ------------------------------------------------------------------ bounds
MaxLen == 2
MaxRetries == 2
MaxFindings == 1
MaxWorkers == 2
MaxLines == 4
MaxMessages == 2
MaxFiles == 2

\* ------------------------------------------------------------- byte strings
Bytes == {97, 255}

ByteStrings == UNION {[1..k -> Bytes] : k \in 0..MaxLen}

\* bytes[n:]
DropBytes(b, n) == SubSeq(b, n + 1, Len(b))

\* ------------------------------------------------------------ process runner
VARIABLES
    rpc,                \* where run_command is: idle, try, except, done
    retries,            \* run_command's retries argument
    remaining_retries,  \* run_command's local
    has_timeout,        \* timeout is not None
    check,              \* check argument (strict mode)
    stdin_mode,         \* "input" (input= bytes), "stdin" (stdin= open file), "none"
    payload,            \* the bytes of input=, or the content of the file behind stdin=
    fpos,               \* offset of the open file description behind stdin=
    stdin_seen,         \* what the latest attempt had on its standard input
    outcomes,           \* how every subprocess.run so far ended, in order
    run_result          \* what run_command returned or raised

runnerVars == <<rpc, retries, remaining_retries, has_timeout, check, stdin_mode,
                payload, fpos, stdin_seen, outcomes, run_result>>

\* one call of an adapter's check function
VARIABLES
    a_pc,         \* idle, done
    a_adapter,    \* the adapter whose check function ran
    a_filenames,  \* the files it was called on
    a_args,       \* its other arguments: severities, explain
    a_file,       \* what reading the file gave
    a_runs,       \* the run_command calls it made: tool, stdin, result
    a_result      \* what it returned or raised

adapterVars == <<a_pc, a_adapter, a_filenames, a_args, a_file, a_runs, a_result>>

\* one run of an adapter's main: the executor and the as_completed loop
VARIABLES
    m_pc,        \* off, submit, as_completed, display, raised, exited
    m_adapter,   \* the adapter whose main runs
    futures,     \* per submitted file: queued, running or finished, and what
                 \* check_file returned or raised
    yielded,     \* the futures as_completed has yielded so far
    future,      \* the future of the current iteration, 0 outside the loop body
    shown,       \* how many Messages of future.result() were displayed
    sys_stdout,  \* the records printed, in order
    sys_stderr,  \* the files logged as failed, in order
    exitcode     \* the exit status of the process, None while it runs

driverVars == <<m_pc, m_adapter, futures, yielded, future, shown, sys_stdout,
                sys_stderr, exitcode>>

\* a requirements file, checked, patched and checked again
VARIABLES
    req_pc,      \* off, file (the file is written), checked
    req_file,    \* the content of the file
    req_round,   \* how many times check_file has run on it
    req_result   \* what the latest check_file returned or raised

requirementsVars == <<req_pc, req_file, req_round, req_result>>

\* one native code or level mapped to a severity
VARIABLES
    sev_pc,       \* off, ready, mapped
    sev_adapter,  \* the adapter whose mapping ran
    sev_native,   \* the native code or level, None when the tool gave none
    sev_severities, \* the --severity overrides in force
    sev_result    \* the severity returned, or the exception raised

severityVars == <<sev_pc, sev_adapter, sev_native, sev_severities, sev_result>>

\* one conversion of lintrunner's JSON lines to SARIF
VARIABLES
    sarif_pc,          \* off, ready, done
    converter,         \* which convert_to_sarif ran: package or legacy
    lintrunner_jsons,  \* the input Messages, in input order
    sarif              \* the document produced

sarifVars == <<sarif_pc, converter, lintrunner_jsons, sarif>>

\* python -m lintrunner_adapters run <adapter> <args>
VARIABLES
    cli_pc,     \* off, start, child, exited
    cli_args,   \* the arguments after "run": the adapter named, and its options
    cli_env,    \* what is installed: the --binary path, the tool on PATH
    child,      \* the adapter's process: where it is, how it ended
    cli_shown,  \* the names of the Messages the adapter displayed
    cli_exit    \* the exit status of the front end

cliVars == <<cli_pc, cli_args, cli_env, child, cli_shown, cli_exit>>

\* clippy_linter.check_files on one request
VARIABLES
    clippy_pc,        \* off, start, found, done
    clippy_filenames, \* the requested files, absolute, in the order given
    cargo_tomls,      \* the directories of the file system that hold a Cargo.toml
    all_cargo_tomls,  \* the roots find_cargo_toml_files returned
    clippy_ran,       \* the roots check_cargo_toml was called on, in call order
    clippy_result     \* what check_files returned or raised

clippyVars ==
    <<clippy_pc, clippy_filenames, cargo_tomls, all_cargo_tomls, clippy_ran,
      clippy_result>>

\* mypy_linter.main on one request
VARIABLES
    mypy_pc,         \* off, start, substituted, checked, done
    mypy_args,       \* args.filenames and args.show_notes
    mypy_stubs,      \* the .pyi files that exist
    mypy_filenames,  \* the keys of the filenames dict, in insertion order
    mypy_messages,   \* what check_files returned or raised
    mypy_displayed   \* the Messages main displayed

mypyVars ==
    <<mypy_pc, mypy_args, mypy_stubs, mypy_filenames, mypy_messages, mypy_displayed>>

\* the writes of one run of main and its worker threads, call by call
VARIABLES
    s_units,  \* per submitted file: where its worker thread is, and how many
              \* Messages check_file returned
    s_main,   \* the main thread: as_completed, print (before the record is
              \* written), end (before the newline is written)
    sink      \* every write() made on sys.stdout and sys.stderr, in order

sinkVars == <<s_units, s_main, sink>>

\* an adapter's main, by the options it hands to run_command
VARIABLES
    opt_adapter,  \* the adapter whose main runs
    opt_retries   \* args.retries, the value of --retries

optionVars == <<opt_adapter, opt_retries>>

vars ==
    <<runnerVars, adapterVars, driverVars, requirementsVars, severityVars, sarifVars,
      cliVars, clippyVars, mypyVars, optionVars, sinkVars>>

\* what a step of the runner, of a check function, of main, of the
\* requirements adapter, leaves alone
notRunnerVars ==
    <<adapterVars, driverVars, requirementsVars, severityVars, sarifVars, cliVars,
      clippyVars, mypyVars, optionVars, sinkVars>>

notAdapterVars ==
    <<runnerVars, driverVars, requirementsVars, severityVars, sarifVars, cliVars,
      clippyVars, mypyVars, optionVars, sinkVars>>

notDriverVars ==
    <<runnerVars, adapterVars, requirementsVars, severityVars, sarifVars, cliVars,
      clippyVars, mypyVars, optionVars, sinkVars>>

notRequirementsVars ==
    <<runnerVars, adapterVars, driverVars, severityVars, sarifVars, cliVars,
      clippyVars, mypyVars, optionVars, sinkVars>>

notSeverityVars ==
    <<runnerVars, adapterVars, driverVars, requirementsVars, sarifVars, cliVars,
      clippyVars, mypyVars, optionVars, sinkVars>>

notSarifVars ==
    <<runnerVars, adapterVars, driverVars, requirementsVars, severityVars, cliVars,
      clippyVars, mypyVars, optionVars, sinkVars>>

notCliVars ==
    <<runnerVars, adapterVars, driverVars, requirementsVars, severityVars, sarifVars,
      clippyVars, mypyVars, optionVars, sinkVars>>

notClippyVars ==
    <<runnerVars, adapterVars, driverVars, requirementsVars, severityVars, sarifVars,
      cliVars, mypyVars, optionVars, sinkVars>>

notMypyVars ==
    <<runnerVars, adapterVars, driverVars, requirementsVars, severityVars, sarifVars,
      cliVars, clippyVars, optionVars, sinkVars>>


notOptionVars ==
    <<runnerVars, adapterVars, driverVars, requirementsVars, severityVars, sarifVars,
      cliVars, clippyVars, mypyVars, sinkVars>>


notSinkVars ==
    <<runnerVars, adapterVars, driverVars, requirementsVars, severityVars, sarifVars,
      cliVars, clippyVars, mypyVars, optionVars>>

ExitCodes == {0, 1, 2}

NoResult == [kind |-> "none"]

StdinModes == {"input", "stdin", "none"}

RunnerIdle ==
    /\ rpc = "idle"
    /\ retries = 0
    /\ remaining_retries = 0
    /\ has_timeout = FALSE
    /\ check = FALSE
    /\ stdin_mode = "none"
    /\ payload = <<>>
    /\ fpos = 0
    /\ stdin_seen = <<>>
    /\ outcomes = <<>>
    /\ run_result = NoResult

\* run_command is entered: remaining_retries = retries
RunCommandCall ==
    /\ rpc = "idle"
    /\ \E r \in 0..MaxRetries, t \in BOOLEAN, c \in BOOLEAN,
          m \in StdinModes, p \in ByteStrings :
          /\ m = "none" => p = <<>>
          /\ retries' = r
          /\ remaining_retries' = r
          /\ has_timeout' = t
          /\ check' = c
          /\ stdin_mode' = m
          /\ payload' = p
    /\ rpc' = "try"
    /\ UNCHANGED <<fpos, stdin_seen, outcomes, run_result>>
    /\ UNCHANGED notRunnerVars

\* What a child started now finds on its standard input: the whole input=
\* payload, or whatever lies behind the inherited descriptor's offset.
StdinAtLaunch ==
    CASE stdin_mode = "input" -> payload
      [] stdin_mode = "stdin" -> DropBytes(payload, fpos)
      [] OTHER -> <<>>

\* The child read n bytes of its standard input: a read through the inherited
\* descriptor moves the offset of the parent's open file.
AfterRead(n) == IF stdin_mode = "stdin" THEN fpos + n ELSE fpos

ReadableNow == Len(StdinAtLaunch)

Retried_any(outcome) == outcome \in {"timeout", "oserror", "exit"}

\* The exception handler of run_command catches TimeoutExpired only.
Retried(outcome) == outcome = "timeout"

\* What leaves _run_command when subprocess.run ends this way: OSError when
\* the child could not be started, CalledProcessError for a nonzero exit under
\* check=True, the CompletedProcess otherwise.
Surfaced(kind, code) ==
    CASE kind = "oserror" -> [kind |-> "OSError"]
      [] kind = "timeout" -> [kind |-> "TimeoutExpired"]
      [] OTHER -> IF check /\ code # 0
                  THEN [kind |-> "CalledProcessError", returncode |-> code]
                  ELSE [kind |-> "CompletedProcess", returncode |-> code]

\* One _run_command: subprocess.run either fails to launch (OSError), is
\* killed at the deadline (TimeoutExpired), or exits with a return code.
RunAttempt ==
    /\ rpc = "try"
    /\ stdin_seen' = StdinAtLaunch
    /\ \E kind \in {"oserror", "timeout", "exit"}, code \in ExitCodes,
          n \in 0..ReadableNow :
          /\ kind = "timeout" => has_timeout
          /\ kind = "oserror" => n = 0
          /\ kind # "exit" => code = 0
          /\ outcomes' = Append(outcomes, [kind |-> kind, code |-> code])
          /\ fpos' = AfterRead(n)
          /\ IF Retried(kind)
                THEN rpc' = "except" /\ UNCHANGED run_result
                ELSE rpc' = "done" /\ run_result' = Surfaced(kind, code)
    /\ UNCHANGED <<retries, remaining_retries, has_timeout, check, stdin_mode, payload>>
    /\ UNCHANGED notRunnerVars

RetriesExhausted_early == remaining_retries <= 1

\* if remaining_retries == 0: raise err
RetriesExhausted == remaining_retries = 0

\* except subprocess.TimeoutExpired: raise when no retry is left, else
\* decrement, log, sleep and go round the loop again.
RunHandler ==
    /\ rpc = "except"
    /\ IF RetriesExhausted
          THEN /\ rpc' = "done"
               /\ run_result' = [kind |-> "TimeoutExpired"]
               /\ UNCHANGED remaining_retries
          ELSE /\ remaining_retries' = remaining_retries - 1
               /\ rpc' = "try"
               /\ UNCHANGED run_result
    /\ UNCHANGED <<retries, has_timeout, check, stdin_mode, payload, fpos,
                   stdin_seen, outcomes>>
    /\ UNCHANGED notRunnerVars

\* ------------------------------------------------------------------ messages
None == <<>>

Some(x) == <<x>>

LintSeverity == {"error", "warning", "advice", "disabled"}

LintMessage(path, line, char, code, severity, name, original, replacement, description) ==
    [path |-> path, line |-> line, char |-> char, code |-> code,
     severity |-> severity, name |-> name, original |-> original,
     replacement |-> replacement, description |-> description]

\* bytes.decode("utf-8") succeeds
IsUtf8(b) == \A i \in 1..Len(b) : b[i] < 128

Chr(n) ==
    CASE n = 10 -> "\n" [] n = 32 -> " " [] n = 35 -> "#" [] n = 45 -> "-"
      [] n = 46 -> "." [] n = 48 -> "0" [] n = 61 -> "=" [] n = 92 -> "\\"
      [] n = 97 -> "a" [] n = 98 -> "b" [] n = 99 -> "c" [] n = 101 -> "e"
      [] n = 103 -> "g" [] n = 107 -> "k" [] n = 111 -> "o" [] n = 112 -> "p"
      [] n = 114 -> "r" [] n = 115 -> "s" [] n = 117 -> "u"
      [] OTHER -> "?"

\* str.encode("utf-8") of one character
Ord(c) ==
    IF \E n \in 0..127 : Chr(n) = c /\ c # "?"
    THEN CHOOSE n \in 0..127 : Chr(n) = c
    ELSE 63

\* bytes.decode("utf-8"), for bytes that are valid UTF-8
Decode(b) == [i \in 1..Len(b) |-> Chr(b[i])]

\* str.encode("utf-8")
Encode(text) == [i \in 1..Len(text) |-> Ord(text[i])]

FormatMessage_swapped(filename, code, position, original, replacement, description) ==
    LintMessage(Some(filename), position, position, code, "warning", "format",
                Some(Decode(replacement)), Some(Decode(original)), description)

\* The Message of a formatting adapter: the decoded content of the file and
\* the decoded output of the tool; position is None, or 1 in rustfmt_linter.
FormatMessage(filename, code, position, original, replacement, description) ==
    LintMessage(Some(filename), position, position, code, "warning", "format",
                Some(Decode(original)), Some(Decode(replacement)), description)

\* ---------------------------------------------------- what a check function sees
\* The standard error of a child, by what the adapters look at: whether it is
\* empty, whether it decodes, whether it starts with b"error: ", and the
\* position of a rustfmt " --> file:line:column" arrow in it, if any.
StdErr(empty, utf8, error_prefix, arrow) ==
    [empty |-> empty, utf8 |-> utf8, error_prefix |-> error_prefix, arrow |-> arrow]

EmptyStdErr == StdErr(TRUE, TRUE, FALSE, None)

StdErrs ==
    {EmptyStdErr,
     StdErr(FALSE, TRUE, FALSE, None),
     StdErr(FALSE, TRUE, TRUE, None),
     StdErr(FALSE, TRUE, TRUE, Some([line |-> 3, column |-> 5])),
     StdErr(FALSE, FALSE, FALSE, None),
     StdErr(FALSE, FALSE, TRUE, None)}

\* What run_command gives its caller: an exception or a CompletedProcess.
TimeoutExpired ==
    [kind |-> "TimeoutExpired", returncode |-> 0, stdout |-> <<>>, stderr |-> EmptyStdErr]

OSError ==
    [kind |-> "OSError", returncode |-> 0, stdout |-> <<>>, stderr |-> EmptyStdErr]

CalledProcessError(code, out, err) ==
    [kind |-> "CalledProcessError", returncode |-> code, stdout |-> out, stderr |-> err]

CompletedProcess(code, out, err) ==
    [kind |-> "CompletedProcess", returncode |-> code, stdout |-> out, stderr |-> err]

\* The results run_command can have for a call with these arguments:
\* TimeoutExpired only under a timeout, CalledProcessError only under
\* check=True, a nonzero CompletedProcess only under check=False.  A child that
\* exits 0 wrote one of outs and one of errs to its standard output and error,
\* one that exits nonzero one of failOuts and failErrs.
RunResults(strict, timed, outs, errs, failOuts, failErrs) ==
    {OSError}
    \cup (IF timed THEN {TimeoutExpired} ELSE {})
    \cup {CompletedProcess(0, o, e) : o \in outs, e \in errs}
    \cup (IF strict
          THEN {CalledProcessError(c, o, e) :
                  c \in ExitCodes \ {0}, o \in failOuts, e \in failErrs}
          ELSE {CompletedProcess(c, o, e) :
                  c \in ExitCodes \ {0}, o \in failOuts, e \in failErrs})

\* Of a failed command the adapters only decode the output for the description.
ShortByteStrings == {b \in ByteStrings : Len(b) <= 1}

PlainStdErrs == {e \in StdErrs : ~e.error_prefix}

\* The results of the call that follows prev, which is made only when prev
\* returned.
Then(prev, results) == IF prev.kind = "CompletedProcess" THEN results ELSE {OSError}

\* open(filename, "rb").read(): the content, or OSError
FileReads == {OSError} \cup {CompletedProcess(0, b, EmptyStdErr) : b \in ByteStrings}

\* What a check function did: returned a list of Messages or raised.
Returned(msgs) == [kind |-> "return", msgs |-> msgs, exc |-> "none"]

Raised(exc) == [kind |-> "raise", msgs |-> <<>>, exc |-> exc]

\* err.stderr.decode("utf-8") and err.stdout.decode("utf-8") in the description
\* of a command-failed Message: both succeed
Describable(err) ==
    err.kind = "CalledProcessError" => (err.stderr.utf8 /\ IsUtf8(err.stdout))

Filenames == {"a.py", "b.py"}

\* ------------------------------------------------- black_isort_linter.check_file
\* The first of open(), the isort run and the black run to raise, if any.
FirstFailure(steps) ==
    IF \E i \in 1..Len(steps) : steps[i].kind # "CompletedProcess"
    THEN steps[CHOOSE i \in 1..Len(steps) :
                 /\ steps[i].kind # "CompletedProcess"
                 /\ \A j \in 1..(i - 1) : steps[j].kind = "CompletedProcess"]
    ELSE CompletedProcess(0, <<>>, EmptyStdErr)

black_isort_check_file(filename, file, isort, black) ==
    LET failure == FirstFailure(<<file, isort, black>>)
        original == file.stdout
        replacement == black.stdout
    IN  IF failure.kind = "TimeoutExpired"
        THEN Returned(<<LintMessage(Some(filename), None, None, "BLACK-ISORT",
                                    "error", "timeout", None, None,
                                    "black-isort timed out")>>)
        ELSE IF failure.kind \in {"OSError", "CalledProcessError"}
        THEN IF Describable(failure)
             THEN Returned(<<LintMessage(Some(filename), None, None, "BLACK-ISORT",
                                         "advice", "command-failed", None, None,
                                         "Failed due to")>>)
             ELSE Raised("UnicodeDecodeError")
        ELSE IF original = replacement
        THEN Returned(<<>>)
        ELSE IF IsUtf8(original) /\ IsUtf8(replacement)
        THEN Returned(<<FormatMessage(filename, "BLACK-ISORT", None, original,
                                      replacement,
                                      "Run lintrunner -a to apply this patch.")>>)
        ELSE Raised("UnicodeDecodeError")

\* ------------------------------------------------ docformatter_linter.check_file
\* run_command(args, retries=retries, timeout=timeout, input=original,
\* check=False); an empty output is raised as CalledProcessError by the
\* adapter itself.
docformatter_check_file(filename, file, proc) ==
    LET original == file.stdout
        replacement == proc.stdout
        failure ==
            IF file.kind # "CompletedProcess" THEN file
            ELSE IF proc.kind # "CompletedProcess" THEN proc
            ELSE IF replacement = <<>>
            THEN CalledProcessError(proc.returncode, proc.stdout, proc.stderr)
            ELSE proc
    IN  IF failure.kind = "TimeoutExpired"
        THEN Returned(<<LintMessage(Some(filename), None, None, "DOCFORMATTER",
                                    "error", "timeout", None, None,
                                    "docformatter timed out")>>)
        ELSE IF failure.kind \in {"OSError", "CalledProcessError"}
        THEN IF Describable(failure)
             THEN Returned(<<LintMessage(Some(filename), None, None, "DOCFORMATTER",
                                         "advice", "command-failed", None, None,
                                         "Failed due to")>>)
             ELSE Raised("UnicodeDecodeError")
        ELSE IF ~(IsUtf8(original) /\ IsUtf8(replacement))
        THEN Returned(<<LintMessage(Some(filename), None, None, "DOCFORMATTER",
                                    "error", "decode-failed", None, None,
                                    "utf-8 decoding failed")>>)
        ELSE IF Decode(original) = Decode(replacement)
        THEN Returned(<<>>)
        ELSE Returned(<<FormatMessage(filename, "DOCFORMATTER", None, original,
                                      replacement,
                                      "Run lintrunner -a to apply this patch.")>>)

\* ----------------------------------------------------- rustfmt_linter.check_file
\* run_command([binary, ...], stdin=f, check=True): no timeout, no retries.
rustfmt_check_file(filename, file, proc) ==
    LET failure == FirstFailure(<<file, proc>>)
        original == file.stdout
        replacement == proc.stdout
    IN  IF failure.kind = "TimeoutExpired"
        THEN Raised("TimeoutExpired")
        ELSE IF failure.kind = "CalledProcessError" /\ failure.returncode = 1
                /\ ~failure.stderr.empty
        THEN IF failure.stderr.utf8
             THEN Returned(<<LintMessage(
                      Some(filename),
                      IF failure.stderr.arrow = None THEN None
                      ELSE Some(failure.stderr.arrow[1].line),
                      IF failure.stderr.arrow = None THEN None
                      ELSE Some(failure.stderr.arrow[1].column),
                      "RUSTFMT", "error", "parsing-error", None, None,
                      "stderr")>>)
             ELSE Raised("UnicodeDecodeError")
        ELSE IF failure.kind \in {"OSError", "CalledProcessError"}
        THEN IF Describable(failure)
             THEN Returned(<<LintMessage(Some(filename), None, None, "RUSTFMT",
                                         "error", "command-failed", None, None,
                                         "Failed due to")>>)
             ELSE Raised("UnicodeDecodeError")
        ELSE IF original = replacement
        THEN Returned(<<>>)
        ELSE IF proc.stderr.error_prefix
        THEN IF proc.stderr.utf8
             THEN Returned(<<LintMessage(Some(filename), None, None, "RUSTFMT",
                                         "warning", "rustfmt-bug", None, None,
                                         "Possible rustfmt bug.")>>)
             ELSE Raised("UnicodeDecodeError")
        ELSE IF IsUtf8(original) /\ IsUtf8(replacement)
        THEN Returned(<<FormatMessage(filename, "RUSTFMT", Some(1), original,
                                      replacement,
                                      "See https://github.com/rust-lang/rustfmt#tips")>>)
        ELSE Raised("UnicodeDecodeError")

\* -------------------------------------------------- the output of a JSON tool
\* The standard output of a tool that prints JSON, by what the adapters do to
\* it: "empty" is b"", "blank" is whitespace only, "binary" does not decode,
\* "text" decodes but is not JSON, "json" decodes and parses to doc.
ToolOutput(enc, doc) == [enc |-> enc, doc |-> doc]

SeqsUpTo(S, n) == UNION {[1..k -> S] : k \in 0..n}

\* ruff's JSON: a list of objects with code, filename, message, location
RuffCodes == {"F401", "E501", ""}

RuffFindings ==
    {[code |-> c, filename |-> f, row |-> 1, column |-> 2] :
        c \in RuffCodes, f \in Filenames}

RuffOutputs ==
    {ToolOutput(e, <<>>) : e \in {"empty", "binary", "text"}}
    \cup {ToolOutput("json", d) : d \in SeqsUpTo(RuffFindings, MaxFindings)}

UndecodedOutputs == {ToolOutput(e, <<>>) : e \in {"empty", "binary"}}

\* An entry of the list without the "filename" key: vuln["filename"] raises
\* KeyError.
MalformedEntry == [code |-> "F401", row |-> 1, column |-> 2]

WellFormed(vuln) == "filename" \in DOMAIN vuln

\* A list with one malformed entry, alone, before or after a well-formed one
RuffPartialOutputs ==
    {ToolOutput("json", <<MalformedEntry>>)}
    \cup {ToolOutput("json", <<MalformedEntry, f>>) : f \in RuffFindings}
    \cup {ToolOutput("json", <<f, MalformedEntry>>) : f \in RuffFindings}

\* err.stdout.decode("utf-8") of a JSON tool's output
OutputDecodes(out) == out.enc # "binary"

\* --severity code:severity options, as the dict main builds from them
SeverityOptions == {<<>>, <<[code |-> "F401", severity |-> "error"]>>}

\* severities.get(code, default)
SeverityGet(severities, code, default) ==
    IF \E i \in 1..Len(severities) : severities[i].code = code
    THEN severities[CHOOSE i \in 1..Len(severities) : severities[i].code = code].severity
    ELSE default

\* explain_rule(code) for every code found: run_command(check=True), decode,
\* json.loads; anything it raises leaves the check function.
Explanations == {"ok", "OSError", "CalledProcessError", "JSONDecodeError"}

\* ---------------------------------------------------- ruff_fix_linter.check_file
ruff_fix_command_failed(err, decodes) ==
    IF err.kind = "CalledProcessError" /\ ~(err.stderr.utf8 /\ decodes)
    THEN Raised("UnicodeDecodeError")
    ELSE Returned(<<LintMessage(None, None, None, "RUFF-FIX", "error",
                                "command-failed", None, None, "Failed due to")>>)

ruff_fix_finding(vuln, severities) ==
    LintMessage(Some(vuln.filename), Some(vuln.row), Some(vuln.column), "RUFF-FIX",
                SeverityGet(severities, vuln.code, "advice"), vuln.code, None, None,
                "message")

ruff_fix_check_file(filename, severities, explain, file, fix, lint, explained) ==
    LET original == file.stdout
        replacement == fix.stdout
        vulnerabilities == lint.stdout.doc
    IN  IF file.kind # "CompletedProcess"
        THEN ruff_fix_command_failed(file, TRUE)
        ELSE IF fix.kind = "TimeoutExpired" THEN Raised("TimeoutExpired")
        ELSE IF fix.kind # "CompletedProcess"
        THEN ruff_fix_command_failed(fix, IsUtf8(fix.stdout))
        ELSE IF lint.kind = "TimeoutExpired" THEN Raised("TimeoutExpired")
        ELSE IF lint.kind # "CompletedProcess"
        THEN ruff_fix_command_failed(lint, OutputDecodes(lint.stdout))
        ELSE IF original = replacement
        THEN Returned(<<>>)
        ELSE IF lint.stdout.enc = "binary" THEN Raised("UnicodeDecodeError")
        ELSE IF lint.stdout.enc # "json" THEN Raised("JSONDecodeError")
        ELSE IF explain /\ vulnerabilities # <<>> /\ explained # "ok"
        THEN Raised(explained)
        ELSE IF ~(IsUtf8(original) /\ IsUtf8(replacement))
        THEN Raised("UnicodeDecodeError")
        ELSE Returned(
                <<FormatMessage(filename, "RUFF-FIX", None, original, replacement,
                                "Run lintrunner -a to apply this patch.")>>
                \o [i \in 1..Len(vulnerabilities) |->
                      ruff_fix_finding(vulnerabilities[i], severities)])

\* ------------------------------------------------------ ruff_linter.check_files
\* code.startswith(x) for some x of prefixes, with the proper prefixes of the
\* codes of RuffCodes written out
CodePrefixes(code) ==
    CASE code = "F401" -> {"F", "F4", "F40", "F401"}
      [] code = "E501" -> {"E", "E5", "E50", "E501"}
      [] code = "B950" -> {"B", "B9", "B95", "B950"}
      [] code = "F821" -> {"F", "F8", "F82", "F821"}
      [] code = "E999" -> {"E", "E9", "E99", "E999"}
      [] code = "W605" -> {"W", "W6", "W60", "W605"}
      [] code = "T400" -> {"T", "T4", "T40", "T400"}
      [] code = "PLE0101" -> {"P", "PL", "PLE", "PLE0", "PLE01", "PLE010", "PLE0101"}
      [] code = "PLC0414" -> {"P", "PL", "PLC", "PLC0", "PLC04", "PLC041", "PLC0414"}
      [] code = "C0114" -> {"C", "C0", "C01", "C011", "C0114"}
      [] code = "R1714" -> {"R", "R1", "R17", "R171", "R1714"}
      [] code = "X1" -> {"X", "X1"}
      [] OTHER -> {}

StartsWithAny(code, prefixes) == CodePrefixes(code) \cap prefixes # {}

ruff_get_issue_severity(code) ==
    IF code = "" THEN "error"
    ELSE IF StartsWithAny(code, {"B9", "C4", "C9", "E2", "E3", "E5", "T400", "T49",
                                 "PLC", "PLR"})
    THEN "advice"
    ELSE IF StartsWithAny(code, {"F821", "E999", "PLE"}) THEN "error"
    ELSE "warning"

ruff_finding(vuln, severities) ==
    LintMessage(Some(vuln.filename), Some(vuln.row), Some(vuln.column), "RUFF",
                SeverityGet(severities, vuln.code, ruff_get_issue_severity(vuln.code)),
                IF vuln.code = "" THEN "ERROR" ELSE vuln.code, None, None, "message")

ruff_check_files(filenames, severities, explain, proc, explained) ==
    IF proc.kind = "TimeoutExpired" THEN Raised("TimeoutExpired")
    ELSE IF proc.kind # "CompletedProcess"
    THEN IF proc.kind = "CalledProcessError"
            /\ ~(proc.stderr.utf8 /\ OutputDecodes(proc.stdout))
         THEN Raised("UnicodeDecodeError")
         ELSE Returned(<<LintMessage(None, None, None, "RUFF", "error",
                                     "command-failed", None, None, "Failed due to")>>)
    ELSE IF proc.stdout.enc = "binary" THEN Raised("UnicodeDecodeError")
    ELSE IF proc.stdout.enc # "json" THEN Raised("JSONDecodeError")
    ELSE IF explain /\ proc.stdout.doc # <<>> /\ explained # "ok"
    THEN Raised(explained)
    ELSE IF \E i \in 1..Len(proc.stdout.doc) : ~WellFormed(proc.stdout.doc[i])
    THEN Raised("KeyError")
    ELSE Returned([i \in 1..Len(proc.stdout.doc) |->
                     ruff_finding(proc.stdout.doc[i], severities)])

\* ------------------------------------------------------ bandit_linter.check_file
\* bandit's JSON: {"errors": [...], "results": [...]}
BanditErrors == {[filename |-> "", reason |-> ""],
                 [filename |-> "b.py", reason |-> "syntax error"]}

BanditIssues ==
    {[test_id |-> "B101", issue_severity |-> "HIGH", filename |-> "a.py",
      line_number |-> Some(4), col_offset |-> Some(0)],
     [test_id |-> "", issue_severity |-> "low", filename |-> "",
      line_number |-> None, col_offset |-> None],
     [test_id |-> "B311", issue_severity |-> "UNDEFINED", filename |-> "b.py",
      line_number |-> Some(1), col_offset |-> None]}

BanditOutputs ==
    {ToolOutput(e, [errors |-> <<>>, results |-> <<>>]) :
        e \in {"empty", "blank", "binary", "text"}}
    \cup {ToolOutput("json", [errors |-> e, results |-> r]) :
            e \in SeqsUpTo(BanditErrors, MaxFindings),
            r \in SeqsUpTo(BanditIssues, MaxFindings)}

\* str.upper() of the severities of BanditIssues
Upper(str) == IF str = "low" THEN "LOW" ELSE str

\* SEVERITIES.get(level, LintSeverity.WARNING)
bandit_SEVERITIES(level) ==
    CASE level = "LOW" -> "advice"
      [] level = "MEDIUM" -> "warning"
      [] level = "HIGH" -> "error"
      [] OTHER -> "warning"

\* x or default, for strings
Or(x, default) == IF x = "" THEN default ELSE x

bandit_error_message(error, filename) ==
    LintMessage(Some(Or(error.filename, filename)), None, None, "BANDIT", "error",
                "bandit-error", None, None, Or(error.reason, "Bandit reported an error."))

bandit_issue_to_message(issue, filename) ==
    LintMessage(Some(Or(issue.filename, filename)), issue.line_number,
                issue.col_offset, "BANDIT",
                bandit_SEVERITIES(Upper(issue.issue_severity)),
                Or(issue.test_id, "BANDIT"), None, None, "issue_text")

\* run_bandit: run_command(..., check=True, timeout=timeout), without retries
bandit_check_file(filename, proc) ==
    IF proc.kind # "CompletedProcess"
    THEN Returned(<<LintMessage(Some(filename), None, None, "BANDIT", "error",
                                "command-failed", None, None, "Failed due to")>>)
    ELSE IF proc.stdout.enc = "empty" THEN Returned(<<>>)
    ELSE IF proc.stdout.enc = "binary"
    THEN Returned(<<LintMessage(Some(filename), None, None, "BANDIT", "error",
                                "decode-failed", None, None, "utf-8 decoding failed")>>)
    ELSE IF proc.stdout.enc = "blank" THEN Returned(<<>>)
    ELSE IF proc.stdout.enc # "json" THEN Raised("JSONDecodeError")
    ELSE Returned(
            [i \in 1..Len(proc.stdout.doc.errors) |->
                bandit_error_message(proc.stdout.doc.errors[i], filename)]
            \o [i \in 1..Len(proc.stdout.doc.results) |->
                bandit_issue_to_message(proc.stdout.doc.results[i], filename)])

\* ------------------------------------------------------- cmake_linter.check_file
\* The lines of cmakelint's output that RESULTS_RE matches.
CmakeMatches ==
    {[file |-> f, line |-> 901, code |-> "[linelength]", message |-> "Lines"] :
        f \in Filenames}

CmakeOutputs ==
    {ToolOutput(e, <<>>) : e \in {"empty", "binary"}}
    \cup {ToolOutput("text", d) : d \in SeqsUpTo(CmakeMatches, MaxFindings)}

cmake_finding(match) ==
    LintMessage(Some(match.file), Some(match.line), None, "CMAKE", "error",
                match.code, None, None, match.message)

\* run_command(["cmakelint", ...]) with the defaults: no retries, no timeout,
\* check=False
cmake_check_file(filename, proc) ==
    IF proc.kind \in {"OSError", "CalledProcessError"}
    THEN Returned(<<LintMessage(Some(filename), None, None, "CLANGFORMAT", "advice",
                                "command-failed", None, None, "Failed due to")>>)
    ELSE IF proc.stdout.enc = "binary" THEN Raised("UnicodeDecodeError")
    ELSE Returned([i \in 1..Len(proc.stdout.doc) |-> cmake_finding(proc.stdout.doc[i])])

\* ------------------------------------------------------------- a check function
\* severities, explain, and what explain_rule did when it was called
Args(severities, explain, explained) ==
    [severities |-> severities, explain |-> explain, explained |-> explained]

NoArgs == Args(<<>>, FALSE, "ok")

AdapterIdle ==
    /\ a_pc = "idle"
    /\ a_adapter = "none"
    /\ a_filenames = <<>>
    /\ a_args = NoArgs
    /\ a_file = OSError
    /\ a_runs = <<>>
    /\ a_result = Returned(<<>>)

Run(tool, stdin, result) == [tool |-> tool, stdin |-> stdin, result |-> result]

\* every call written in the function, whether or not an earlier one raised
UpToFailure_all(runs) == runs

\* The calls made up to the first one that raised.
UpToFailure(runs) ==
    IF \E i \in 1..Len(runs) : runs[i].result.kind # "CompletedProcess"
    THEN SubSeq(runs, 1, CHOOSE i \in 1..Len(runs) :
                           /\ runs[i].result.kind # "CompletedProcess"
                           /\ \A j \in 1..(i - 1) :
                                 runs[j].result.kind = "CompletedProcess")
    ELSE runs

Finish(adapter, filenames, args, file, runs, result) ==
    /\ a_pc' = "done"
    /\ a_adapter' = adapter
    /\ a_filenames' = filenames
    /\ a_args' = args
    /\ a_file' = file
    /\ a_runs' = IF file.kind = "OSError" THEN <<>> ELSE UpToFailure(runs)
    /\ a_result' = result
    /\ UNCHANGED notAdapterVars

\* run_command(..., retries=retries, timeout=timeout, check=True) of a tool
\* that prints the rewritten file: isort, black, ruff --fix
FormatterRuns ==
    RunResults(TRUE, TRUE, ByteStrings, {EmptyStdErr}, ShortByteStrings, PlainStdErrs)

\* run_command(args, retries=retries, timeout=timeout, input=original, check=False)
DocformatterRuns ==
    RunResults(FALSE, TRUE, ByteStrings, PlainStdErrs, ByteStrings, PlainStdErrs)

\* run_command([binary, "--emit=stdout", "--quiet"], stdin=f, check=True)
RustfmtRuns ==
    RunResults(TRUE, FALSE, ByteStrings, StdErrs, ShortByteStrings, StdErrs)

\* run_command([..., "ruff", ...], retries=retries, timeout=timeout, check=True)
RuffRuns ==
    RunResults(TRUE, TRUE, RuffOutputs, {EmptyStdErr}, UndecodedOutputs, PlainStdErrs)

\* the same call, with the lists that hold a malformed entry
RuffCheckRuns ==
    RuffRuns \cup {CompletedProcess(0, o, EmptyStdErr) : o \in RuffPartialOutputs}

\* run_command(["bandit", ...], check=True, timeout=timeout)
BanditRuns ==
    RunResults(TRUE, TRUE, BanditOutputs, {EmptyStdErr},
               {o \in BanditOutputs : o.enc \in {"empty", "binary"}}, PlainStdErrs)

NotRead == CompletedProcess(0, <<>>, EmptyStdErr)

\* -------------------------------------------------------- grep_linter.lint_file
\* run_command(["grep", "-nEHI", allowlist_pattern, filename]) and
\* run_command(["sed", "-r", replace_pattern, filename]): no check, no timeout
GrepRuns ==
    RunResults(FALSE, FALSE, ByteStrings, {EmptyStdErr}, ShortByteStrings, {EmptyStdErr})

grep_command_failed ==
    LintMessage(None, None, None, "GREP", "error", "command-failed", None, None,
                "Failed due to")

\* the Message of a matching line, with the file and what sed printed when a
\* replace pattern was given
grep_finding(filename, original, replacement) ==
    Returned(<<LintMessage(Some(filename), Some(1), None, "GREP", "error",
                           "error-name", original, replacement, "description")>>)

\* lint_file on the matching line "filename:1:...": allow is what the grep for
\* the allowlist pattern did, file what open(encoding="utf-8").read() gave,
\* sed what the sed run did
lint_file(filename, allowlist_pattern, replace_pattern, allow, file, sed) ==
    IF allowlist_pattern /\ allow.kind # "CompletedProcess"
    THEN Returned(<<grep_command_failed>>)
    ELSE IF allowlist_pattern /\ allow.returncode = 0
    THEN Returned(<<>>)
    ELSE IF ~replace_pattern
    THEN grep_finding(filename, None, None)
    ELSE IF file.kind = "OSError" THEN Raised("OSError")
    ELSE IF ~IsUtf8(file.stdout) THEN Raised("UnicodeDecodeError")
    ELSE IF sed.kind # "CompletedProcess" \/ ~IsUtf8(sed.stdout)
    THEN Returned(<<grep_command_failed>>)
    ELSE grep_finding(filename, Some(Decode(file.stdout)), Some(Decode(sed.stdout)))

\* the run_command calls lint_file made
lint_file_runs(allowlist_pattern, replace_pattern, allow, file, sed) ==
    (IF allowlist_pattern THEN <<Run("grep", <<>>, allow)>> ELSE <<>>)
    \o (IF /\ replace_pattern
           /\ ~(allowlist_pattern
                /\ (allow.kind # "CompletedProcess" \/ allow.returncode = 0))
           /\ file.kind = "CompletedProcess" /\ IsUtf8(file.stdout)
        THEN <<Run("sed", <<>>, sed)>> ELSE <<>>)

CheckGrep ==
    /\ a_pc = "idle"
    /\ \E fn \in Filenames, allowlist_pattern \in BOOLEAN, replace_pattern \in BOOLEAN :
       \E allow \in IF allowlist_pattern THEN GrepRuns ELSE {OSError} :
       \E file \in IF replace_pattern THEN FileReads ELSE {NotRead} :
       \E sed \in IF replace_pattern THEN GrepRuns ELSE {OSError} :
          /\ a_pc' = "done"
          /\ a_adapter' = "grep"
          /\ a_filenames' = <<fn>>
          /\ a_args' = NoArgs
          /\ a_file' = file
          /\ a_runs' = lint_file_runs(allowlist_pattern, replace_pattern, allow,
                                       file, sed)
          /\ a_result' = lint_file(fn, allowlist_pattern, replace_pattern, allow,
                                    file, sed)
    /\ UNCHANGED notAdapterVars

CheckBlackIsort ==
    /\ a_pc = "idle"
    /\ \E fn \in Filenames, file \in FileReads :
       \E isort \in Then(file, FormatterRuns) :
       \E black \in Then(isort, FormatterRuns) :
          Finish("black_isort", <<fn>>, NoArgs, file,
                 <<Run("isort", file.stdout, isort), Run("black", isort.stdout, black)>>,
                 black_isort_check_file(fn, file, isort, black))

CheckDocformatter ==
    /\ a_pc = "idle"
    /\ \E fn \in Filenames, file \in FileReads :
       \E proc \in Then(file, DocformatterRuns) :
          Finish("docformatter", <<fn>>, NoArgs, file,
                 <<Run("docformatter", file.stdout, proc)>>,
                 docformatter_check_file(fn, file, proc))

CheckRustfmt ==
    /\ a_pc = "idle"
    /\ \E fn \in Filenames, file \in FileReads :
       \E proc \in Then(file, RustfmtRuns) :
          Finish("rustfmt", <<fn>>, NoArgs, file,
                 <<Run("rustfmt", file.stdout, proc)>>,
                 rustfmt_check_file(fn, file, proc))

CheckRuffFix ==
    /\ a_pc = "idle"
    /\ \E fn \in Filenames, file \in FileReads, severities \in SeverityOptions,
          explain \in BOOLEAN :
       \E fix \in Then(file, FormatterRuns) :
       \E lint \in Then(fix, RuffRuns) :
       \E explained \in IF explain THEN Explanations ELSE {"ok"} :
          Finish("ruff_fix", <<fn>>, Args(severities, explain, explained), file,
                 <<Run("ruff --fix", file.stdout, fix), Run("ruff", fix.stdout, lint)>>,
                 ruff_fix_check_file(fn, severities, explain, file, fix, lint,
                                     explained))

CheckRuff ==
    /\ a_pc = "idle"
    /\ \E fns \in SeqsUpTo(Filenames, 2) \ {<<>>}, severities \in SeverityOptions,
          explain \in BOOLEAN, proc \in RuffCheckRuns :
       \E explained \in IF explain THEN Explanations ELSE {"ok"} :
          Finish("ruff", fns, Args(severities, explain, explained), NotRead,
                 <<Run("ruff check", <<>>, proc)>>,
                 ruff_check_files(fns, severities, explain, proc, explained))

CheckBandit ==
    /\ a_pc = "idle"
    /\ \E fn \in Filenames, proc \in BanditRuns :
          Finish("bandit", <<fn>>, NoArgs, NotRead, <<Run("bandit", <<>>, proc)>>,
                 bandit_check_file(fn, proc))

\* run_command(["cmakelint", f"--config={config}", filename])
CmakeRuns ==
    RunResults(FALSE, FALSE, CmakeOutputs, {EmptyStdErr}, CmakeOutputs, PlainStdErrs)

CheckCmake ==
    /\ a_pc = "idle"
    /\ \E fn \in Filenames, proc \in CmakeRuns :
          Finish("cmake", <<fn>>, NoArgs, NotRead, <<Run("cmakelint", <<>>, proc)>>,
                 cmake_check_file(fn, proc))

\* ------------------------------------------------- requirements_txt_linter
\* bytes.strip(), lstrip(), rstrip() without argument remove ASCII whitespace
Whitespace == {9, 10, 11, 12, 13, 32}

\* line.strip() == b""
IsBlank(line) == \A i \in 1..Len(line) : line[i] \in Whitespace

\* line.lstrip()
LStrip(line) ==
    IF IsBlank(line) THEN <<>>
    ELSE SubSeq(line, CHOOSE i \in 1..Len(line) :
                        /\ line[i] \notin Whitespace
                        /\ \A j \in 1..(i - 1) : line[j] \in Whitespace,
                Len(line))

\* value.rstrip(b"\r\n")
RStripNewlines(value) ==
    IF \A i \in 1..Len(value) : value[i] \in {10, 13} THEN <<>>
    ELSE SubSeq(value, 1, CHOOSE i \in 1..Len(value) :
                             /\ value[i] \notin {10, 13}
                             /\ \A j \in (i + 1)..Len(value) : value[j] \in {10, 13})

StartsWith(b, prefix) ==
    Len(b) >= Len(prefix) /\ SubSeq(b, 1, Len(prefix)) = prefix

EndsWith(b, suffix) ==
    Len(b) >= Len(suffix) /\ SubSeq(b, Len(b) - Len(suffix) + 1, Len(b)) = suffix

\* list(f) of a binary file: the lines, each with its newline
RECURSIVE SplitLines(_)
SplitLines(b) ==
    IF b = <<>> THEN <<>>
    ELSE LET k == IF \E i \in 1..Len(b) : b[i] = 10
                  THEN CHOOSE i \in 1..Len(b) :
                          b[i] = 10 /\ \A j \in 1..(i - 1) : b[j] # 10
                  ELSE Len(b)
         IN  <<SubSeq(b, 1, k)>> \o SplitLines(SubSeq(b, k + 1, Len(b)))

\* b"".join(lines)
RECURSIVE Join(_)
Join(lines) == IF lines = <<>> THEN <<>> ELSE Head(lines) \o Join(Tail(lines))

\* Requirement(): value is None, comments is []
Requirement == [value |-> None, comments |-> <<>>]

\* Requirement.is_complete
is_complete(requirement) ==
    /\ requirement.value # None
    /\ ~EndsWith(RStripNewlines(requirement.value[1]), <<92>>)

\* Requirement.append_value
append_value(requirement, value) ==
    [requirement EXCEPT !.value = IF requirement.value # None
                                  THEN Some(requirement.value[1] \o value)
                                  ELSE Some(value)]

\* bytes.lower()
Lower(b) == [i \in 1..Len(b) |-> IF b[i] \in 65..90 THEN b[i] + 32 ELSE b[i]]

\* egg in value, and name.partition(egg)[-1]
Contains(b, sub) ==
    \E i \in 1..(Len(b) - Len(sub) + 1) : SubSeq(b, i, i + Len(sub) - 1) = sub

AfterFirst(b, sub) ==
    IF Contains(b, sub)
    THEN LET i == CHOOSE i \in 1..(Len(b) - Len(sub) + 1) :
                     /\ SubSeq(b, i, i + Len(sub) - 1) = sub
                     /\ \A j \in 1..(i - 1) : SubSeq(b, j, j + Len(sub) - 1) # sub
         IN  SubSeq(b, i + Len(sub), Len(b))
    ELSE <<>>

\* b"#egg=" and b"&egg="
Eggs == <<<<35, 101, 103, 103, 61>>, <<38, 101, 103, 103, 61>>>>

\* UNTIL_SEP = rb"[^;\s]+": the match at the start of name, b"" if there is none
UntilSep(name) ==
    LET stops == {i \in 1..Len(name) : name[i] = 59 \/ name[i] \in Whitespace}
    IN  IF stops = {} THEN name
        ELSE SubSeq(name, 1, (CHOOSE i \in stops : \A j \in stops : i <= j) - 1)

\* UNTIL_COMPARISON = b"={2,3}|!=|~=|>=?|<=?": where the first match starts, 0
\* if there is none
ComparisonStart(name) ==
    LET starts == {i \in 1..Len(name) :
                     \/ name[i] \in {60, 62}
                     \/ /\ name[i] \in {33, 61, 126}
                        /\ i < Len(name)
                        /\ name[i + 1] = 61}
    IN  IF starts = {} THEN 0 ELSE CHOOSE i \in starts : \A j \in starts : i <= j

\* Requirement.name asserts that UNTIL_SEP matches
NameRaises(requirement) ==
    LET value == requirement.value[1]
    IN  /\ \A e \in 1..Len(Eggs) : ~Contains(value, Eggs[e])
        /\ UntilSep(Lower(value)) = <<>>

\* Requirement.name
RequirementName(requirement) ==
    LET value == requirement.value[1]
        name == Lower(value)
    IN  IF Contains(value, Eggs[1]) THEN AfterFirst(name, Eggs[1])
        ELSE IF Contains(value, Eggs[2]) THEN AfterFirst(name, Eggs[2])
        ELSE LET m == UntilSep(name)
                 c == ComparisonStart(m)
             IN  IF c = 0 THEN m ELSE SubSeq(m, 1, c - 1)

\* bytes < bytes
BytesLess(x, y) ==
    \/ Len(x) < Len(y) /\ SubSeq(y, 1, Len(x)) = x
    \/ \E i \in 1..Len(x) :
          /\ i <= Len(y)
          /\ SubSeq(x, 1, i - 1) = SubSeq(y, 1, i - 1)
          /\ x[i] < y[i]

\* Requirement.__lt__
RequirementLess(self, requirement) ==
    IF self.value = Some(<<10>>) THEN TRUE
    ELSE IF requirement.value = Some(<<10>>) THEN FALSE
    ELSE BytesLess(RequirementName(self), RequirementName(requirement))

\* sorted(requirements): stable, each element goes after those it is not less
\* than
RECURSIVE Sorted(_)
Sorted(requirements) ==
    IF requirements = <<>> THEN <<>>
    ELSE LET n == Len(requirements)
             done == Sorted(SubSeq(requirements, 1, n - 1))
             r == requirements[n]
             before == {i \in 1..Len(done) : RequirementLess(r, done[i])}
             k == IF before = {} THEN Len(done) + 1
                  ELSE CHOOSE i \in before : \A j \in before : i <= j
         IN  SubSeq(done, 1, k - 1) \o <<r>> \o SubSeq(done, k, Len(done))

\* sorted() compares every requirement with another one as soon as there are
\* two besides the top-of-file comment; the comparison evaluates both names
SortRaises(requirements) ==
    LET named == {i \in 1..Len(requirements) : requirements[i].value # Some(<<10>>)}
    IN  /\ Cardinality(named) >= 2
        /\ \E i \in named : NameRaises(requirements[i])

\* fix_requirements, one turn of: for line in before
ReadLine(requirements, line) ==
    LET started == IF requirements = <<>> \/ is_complete(requirements[Len(requirements)])
                   THEN Append(requirements, Requirement)
                   ELSE requirements
        n == Len(started)
        requirement == started[n]
    IN  IF n = 1 /\ IsBlank(line)
        THEN IF requirement.comments # <<>> /\ StartsWith(requirement.comments[1], <<35>>)
             THEN [started EXCEPT ![n].value = Some(<<10>>)]
             ELSE [started EXCEPT ![n].comments = Append(@, line)]
        ELSE IF StartsWith(LStrip(line), <<35>>) \/ IsBlank(line)
        THEN [started EXCEPT ![n].comments = Append(@, line)]
        ELSE [started EXCEPT ![n] = append_value(requirement, line)]

RECURSIVE ReadLines(_, _)
ReadLines(requirements, lines) ==
    IF lines = <<>> THEN requirements
    ELSE ReadLines(ReadLine(requirements, Head(lines)), Tail(lines))

\* after.extend(requirement.comments); after.append(requirement.value)
RECURSIVE WriteRequirements(_)
WriteRequirements(requirements) ==
    IF requirements = <<>> THEN <<>>
    ELSE Join(Head(requirements).comments) \o Head(requirements).value[1]
         \o WriteRequirements(Tail(requirements))

\* b"pkg-resources==0.0.0\n"
PkgResources ==
    <<112, 107, 103, 45, 114, 101, 115, 111, 117, 114, 99, 101, 115, 61, 61,
      48, 46, 48, 46, 48, 10>>

\* fix_requirements(f): the bytes it returns, or the exception it raises
fix_requirements(before_string) ==
    LET lines == SplitLines(before_string)
        before == IF lines # <<>> /\ ~EndsWith(lines[Len(lines)], <<10>>)
                  THEN [lines EXCEPT ![Len(lines)] = @ \o <<10>>]
                  ELSE lines
    IN  IF IsBlank(before_string)
        THEN [kind |-> "return", bytes |-> before_string, exc |-> "none"]
        ELSE LET read == ReadLines(<<>>, before)
                 ends_in_comment == read[Len(read)].value = None
                 rest == IF ends_in_comment THEN read[Len(read)].comments ELSE <<>>
                 requirements == SelectSeq(
                     IF ends_in_comment THEN SubSeq(read, 1, Len(read) - 1) ELSE read,
                     LAMBDA req : req.value # Some(PkgResources))
             IN  IF SortRaises(requirements)
                 THEN [kind |-> "raise", bytes |-> <<>>, exc |-> "AssertionError"]
                 ELSE [kind |-> "return",
                       bytes |-> WriteRequirements(Sorted(requirements)) \o Join(rest),
                       exc |-> "none"]

\* requirements_txt_linter.check_file
requirements_check_file(filename, original) ==
    LET fixed == fix_requirements(original)
    IN  IF fixed.kind = "raise" THEN Raised(fixed.exc)
        ELSE IF original = fixed.bytes THEN Returned(<<>>)
        ELSE IF IsUtf8(original) /\ IsUtf8(fixed.bytes)
        THEN Returned(<<FormatMessage(filename, "REQUIREMENTS-TXT", None, original,
                                      fixed.bytes,
                                      "Run lintrunner -a to apply this patch.")>>)
        ELSE Raised("UnicodeDecodeError")

\* --------------------------------------------------------------------- main
\* args.filenames of the run
args_filenames == <<"a.py", "b.py", "c.py">>

FanOutAdapters == {"black_isort", "ruff_fix"}

\* main has not been entered
DriverOff ==
    /\ m_pc = "off"
    /\ m_adapter = "none"
    /\ futures = <<>>
    /\ yielded = {}
    /\ future = 0
    /\ shown = 0
    /\ sys_stdout = <<>>
    /\ sys_stderr = <<>>
    /\ exitcode = None

\* main is about to build the futures dict
DriverStart ==
    /\ m_pc = "submit"
    /\ m_adapter \in FanOutAdapters
    /\ futures = <<>>
    /\ yielded = {}
    /\ future = 0
    /\ shown = 0
    /\ sys_stdout = <<>>
    /\ sys_stderr = <<>>
    /\ exitcode = None

Pending == [kind |-> "pending", msgs |-> <<>>, exc |-> "none"]

Queued == {u \in DOMAIN futures : futures[u].state = "queued"}

Running == {u \in DOMAIN futures : futures[u].state = "running"}

AllFinished == \A u \in DOMAIN futures : futures[u].state = "finished"

\* What check_file can do on one file of the run: the file holds b"a"; the
\* tool leaves it alone, rewrites it, prints bytes that do not decode, or
\* times out.
DriverRead == CompletedProcess(0, <<97>>, EmptyStdErr)

DriverRewrites ==
    {TimeoutExpired}
    \cup {CompletedProcess(0, o, EmptyStdErr) : o \in {<<97>>, <<97, 97>>, <<255>>}}

DriverFindings ==
    {CompletedProcess(0, ToolOutput("json", <<[code |-> "F401", filename |-> "a.py",
                                               row |-> 1, column |-> 2]>>),
                      EmptyStdErr)}

CheckFileOutcomes(adapter, filename) ==
    IF adapter = "black_isort"
    THEN {black_isort_check_file(filename, DriverRead, isort, black) :
            isort \in {DriverRead, TimeoutExpired}, black \in DriverRewrites}
    ELSE {ruff_fix_check_file(filename, <<>>, FALSE, DriverRead, fix, lint, "ok") :
            fix \in DriverRewrites, lint \in DriverFindings}

\* executor.submit(check_file, x, ...) for the next x in args.filenames
Submit ==
    /\ m_pc = "submit"
    /\ futures' = Append(futures, [state |-> "queued", outcome |-> Pending])
    /\ m_pc' = IF Len(futures) + 1 = Len(args_filenames)
               THEN "as_completed" ELSE "submit"
    /\ UNCHANGED <<m_adapter, yielded, future, shown, sys_stdout, sys_stderr,
                   exitcode>>
    /\ UNCHANGED notDriverVars

\* a worker thread of the pool takes the oldest queued work item
WorkerStart ==
    /\ Queued # {}
    /\ Cardinality(Running) < MaxWorkers
    /\ LET u == CHOOSE q \in Queued : \A r \in Queued : q <= r
       IN  futures' = [futures EXCEPT ![u].state = "running"]
    /\ UNCHANGED <<m_pc, m_adapter, yielded, future, shown, sys_stdout,
                   sys_stderr, exitcode>>
    /\ UNCHANGED notDriverVars

\* check_file returns or raises in its worker thread; the future holds it
WorkerFinish ==
    /\ Running # {}
    /\ \E u \in Running :
       \E outcome \in CheckFileOutcomes(m_adapter, args_filenames[u]) :
          futures' = [futures EXCEPT
                         ![u] = [state |-> "finished", outcome |-> outcome]]
    /\ UNCHANGED <<m_pc, m_adapter, yielded, future, shown, sys_stdout,
                   sys_stderr, exitcode>>
    /\ UNCHANGED notDriverVars

Done_batch(u) == AllFinished /\ u \notin yielded

\* as_completed yields a future once it has finished, each future once
Done(u) == futures[u].state = "finished" /\ u \notin yielded

\* the failure is logged and the loop goes on to the next future
Reraise_logged(u) ==
    /\ sys_stderr' = Append(sys_stderr, args_filenames[u])
    /\ m_pc' = "as_completed"

Reraise_swallowed(u) ==
    /\ sys_stderr' = sys_stderr
    /\ m_pc' = "as_completed"

\* except Exception: logging.critical('Failed at "%s".', futures[future]); raise
Reraise(u) ==
    /\ sys_stderr' = Append(sys_stderr, args_filenames[u])
    /\ m_pc' = "raised"

\* the next turn of the as_completed loop, up to future.result()
NextFuture ==
    /\ m_pc = "as_completed"
    /\ \E u \in DOMAIN futures :
          /\ Done(u)
          /\ yielded' = yielded \cup {u}
          /\ IF futures[u].outcome.kind = "raise"
             THEN /\ Reraise(u)
                  /\ future' = u
             ELSE /\ sys_stderr' = sys_stderr
                  /\ IF futures[u].outcome.msgs = <<>>
                     THEN m_pc' = "as_completed" /\ future' = 0
                     ELSE m_pc' = "display" /\ future' = u
    /\ shown' = 0
    /\ UNCHANGED <<m_adapter, futures, sys_stdout, exitcode>>
    /\ UNCHANGED notDriverVars

Iterate_reversed(msgs, i) == msgs[Len(msgs) + 1 - i]

\* for lint_message in future.result(): the i-th turn
Iterate(msgs, i) == msgs[i]

\* lint_message.display(): one record on standard output
Display ==
    /\ m_pc = "display"
    /\ LET msgs == futures[future].outcome.msgs
       IN  /\ sys_stdout' = Append(sys_stdout,
                                   [unit |-> future, index |-> shown + 1,
                                    record |-> Iterate(msgs, shown + 1)])
           /\ IF shown + 1 = Len(msgs)
              THEN m_pc' = "as_completed" /\ future' = 0 /\ shown' = 0
              ELSE m_pc' = "display" /\ future' = future /\ shown' = shown + 1
    /\ UNCHANGED <<m_adapter, futures, yielded, sys_stderr, exitcode>>
    /\ UNCHANGED notDriverVars

\* the with block is left, by the end of the loop or by the exception:
\* executor.shutdown(wait=True) lets every submitted future finish, then the
\* process exits, with a traceback and status 1 if the exception was raised
ExecutorExit ==
    /\ m_pc \in {"as_completed", "raised"}
    /\ m_pc = "as_completed" => yielded = DOMAIN futures
    /\ AllFinished
    /\ m_pc' = "exited"
    /\ exitcode' = Some(IF m_pc = "raised" THEN 1 ELSE 0)
    /\ UNCHANGED <<m_adapter, futures, yielded, future, shown, sys_stdout,
                   sys_stderr>>
    /\ UNCHANGED notDriverVars

\* the steps of the main thread
MainThread == Submit \/ NextFuture \/ Display \/ ExecutorExit

\* ------------------------------------ requirements_txt_linter, run and rerun
\* The lines a requirements file is made of here: two requirements, an
\* empty line, a line of one space, a comment, a requirement continued on
\* the next line, an indented requirement, and the line pip adds on Debian.
RequirementLines ==
    {<<97, 10>>, <<98, 10>>, <<10>>, <<32, 10>>, <<35, 10>>, <<97, 92, 10>>,
     <<32, 97, 10>>, PkgResources}

\* The files: up to MaxLines lines, the last one with or without its newline.
RequirementFiles ==
    LET whole == {Join(lines) : lines \in SeqsUpTo(RequirementLines, MaxLines)}
    IN  whole \cup {SubSeq(b, 1, Len(b) - 1) : b \in whole \ {<<>>}}

RequirementsOff ==
    /\ req_pc = "off"
    /\ req_file = <<>>
    /\ req_round = 0
    /\ req_result = Pending

RequirementsStart ==
    /\ req_pc = "file"
    /\ req_file \in RequirementFiles
    /\ req_round = 0
    /\ req_result = Pending

\* check_file(filename) on the file as it is now
RequirementsCheckFile ==
    /\ req_pc = "file"
    /\ req_result' = requirements_check_file("requirements.txt", req_file)
    /\ req_round' = req_round + 1
    /\ req_pc' = "checked"
    /\ UNCHANGED req_file
    /\ UNCHANGED notRequirementsVars

\* lintrunner -a: the replacement of the Message is written to the file
ApplyPatch ==
    /\ req_pc = "checked"
    /\ req_round = 1
    /\ req_result.kind = "return"
    /\ req_result.msgs # <<>>
    /\ req_file' = Encode(req_result.msgs[1].replacement[1])
    /\ req_pc' = "file"
    /\ UNCHANGED <<req_round, req_result>>
    /\ UNCHANGED notRequirementsVars

\* ------------------------------------------------------- severity mappings
\* What a mapping gives: a severity, or the exception that leaves it.
Severity(severity) == [kind |-> "return", severity |-> severity, exc |-> "none"]

SeverityRaised(exc) == [kind |-> "raise", severity |-> "none", exc |-> exc]

\* clippy_linter: SEVERITIES[data["message"].get("level")], a subscript
clippy_SEVERITIES(level) ==
    CASE level = None -> Severity("advice")
      [] level = Some("error") -> Severity("error")
      [] level = Some("warning") -> Severity("warning")
      [] level = Some("note") -> Severity("advice")
      [] level = Some("help") -> Severity("advice")
      [] OTHER -> SeverityRaised("KeyError")

\* flake8_linter.get_issue_severity
flake8_get_issue_severity(code) ==
    IF StartsWithAny(code, {"B9", "C4", "C9", "E2", "E3", "E5", "T400", "T49"})
    THEN "advice"
    ELSE IF StartsWithAny(code, {"F821", "E999"}) THEN "error"
    ELSE "warning"

\* flake8_linter: severities.get(code) or get_issue_severity(code)
flake8_severity(severities, code) ==
    Severity(SeverityGet(severities, code, flake8_get_issue_severity(code)))

\* ruff_linter: severities.get(code, get_issue_severity(code)); code may be None
ruff_severity(severities, code) ==
    LET native == IF code = None THEN "" ELSE code[1]
    IN  Severity(SeverityGet(severities, native, ruff_get_issue_severity(native)))

\* ruff_fix_linter and refurb_linter: severities.get(code, LintSeverity.ADVICE)
advice_severity(severities, code) == Severity(SeverityGet(severities, code, "advice"))

\* bandit_linter: SEVERITIES.get((issue.get("issue_severity") or "").upper(), WARNING)
bandit_severity(level) ==
    Severity(bandit_SEVERITIES(Upper(IF level = None THEN "" ELSE level[1])))

\* mypy_linter: SEVERITIES.get(match["severity"], LintSeverity.ERROR)
mypy_SEVERITIES(severity) ==
    Severity(CASE severity = "error" -> "error"
               [] severity = "note" -> "advice"
               [] OTHER -> "error")

\* pylint_linter: SEVERITIES.get(match["code"][0], LintSeverity.ERROR)
pylint_SEVERITIES(code) ==
    Severity(IF StartsWithAny(code, {"I", "C", "R"}) THEN "advice"
             ELSE IF StartsWithAny(code, {"W"}) THEN "warning"
             ELSE "error")

\* the native values the tools hand over
NativeCodes ==
    {"F401", "E501", "B950", "F821", "E999", "W605", "T400", "PLE0101",
     "PLC0414", "C0114", "R1714", "X1"}

NativeLevels ==
    {None} \cup {Some(l) : l \in {"error", "warning", "note", "help",
                                   "failure-note", "low", "LOW", "MEDIUM", "HIGH",
                                   "UNDEFINED"}}

SeverityOff ==
    /\ sev_pc = "off"
    /\ sev_adapter = "none"
    /\ sev_native = None
    /\ sev_severities = <<>>
    /\ sev_result = SeverityRaised("none")

SeverityReady ==
    /\ sev_pc = "ready"
    /\ sev_adapter = "none"
    /\ sev_native = None
    /\ sev_severities = <<>>
    /\ sev_result = SeverityRaised("none")

Mapped(adapter, native, severities, result) ==
    /\ sev_pc' = "mapped"
    /\ sev_adapter' = adapter
    /\ sev_native' = native
    /\ sev_severities' = severities
    /\ sev_result' = result
    /\ UNCHANGED notSeverityVars

MapClippy ==
    /\ sev_pc = "ready"
    /\ \E level \in NativeLevels : Mapped("clippy", level, <<>>, clippy_SEVERITIES(level))

MapFlake8 ==
    /\ sev_pc = "ready"
    /\ \E code \in NativeCodes, severities \in SeverityOptions :
          Mapped("flake8", Some(code), severities, flake8_severity(severities, code))

MapRuff ==
    /\ sev_pc = "ready"
    /\ \E code \in {None} \cup {Some(c) : c \in NativeCodes},
          severities \in SeverityOptions :
          Mapped("ruff", code, severities, ruff_severity(severities, code))

MapRuffFix ==
    /\ sev_pc = "ready"
    /\ \E code \in NativeCodes, severities \in SeverityOptions :
          Mapped("ruff_fix", Some(code), severities, advice_severity(severities, code))

MapRefurb ==
    /\ sev_pc = "ready"
    /\ \E code \in NativeCodes, severities \in SeverityOptions :
          Mapped("refurb", Some(code), severities, advice_severity(severities, code))

MapBandit ==
    /\ sev_pc = "ready"
    /\ \E level \in NativeLevels : Mapped("bandit", level, <<>>, bandit_severity(level))

MapMypy ==
    /\ sev_pc = "ready"
    /\ \E level \in NativeLevels \ {None} :
          Mapped("mypy", level, <<>>, mypy_SEVERITIES(level[1]))

MapPylint ==
    /\ sev_pc = "ready"
    /\ \E code \in NativeCodes :
          Mapped("pylint", Some(code), <<>>, pylint_SEVERITIES(code))

\* --------------------------------------------------------- convert_to_sarif
\* Text is a sequence of one-character strings, so that joining two texts is
\* concatenation and a prefix is a subsequence.
\* lintrunner_adapters/tools/convert_to_sarif.format_rule_name: code/name
format_rule_name(lintrunner_result) ==
    lintrunner_result.code \o <<"/">> \o lintrunner_result.name

\* lintrunner_adapters/tools/convert_to_sarif.severity_to_github_level
severity_to_github_level(severity) ==
    IF severity \in {"advice", "disabled"} THEN "note" ELSE severity

\* tools/convert_to_sarif.severity_to_github_level
legacy_severity_to_github_level(severity) ==
    IF severity = "advice" \/ severity = "disabled" THEN "warning" ELSE severity

\* value or 1, for an optional line or column
OrOne(value) == IF value = None \/ value = Some(0) THEN 1 ELSE value[1]

\* the uri of a result: None without a path, file:// before an absolute path,
\* the path itself otherwise
artifact_uri(path) ==
    IF path = None THEN None
    ELSE IF StartsWith(path[1], <<"/">>)
    THEN Some(<<"f", "i", "l", "e", ":", "/", "/">> \o path[1])
    ELSE Some(path[1])

\* lintrunner_adapters/tools/convert_to_sarif.parse_single_lintrunner_result
parse_single_lintrunner_result(lintrunner_result) ==
    [result |->
        [ruleId |-> format_rule_name(lintrunner_result),
         level |-> severity_to_github_level(lintrunner_result.severity),
         message |-> [text |-> lintrunner_result.description],
         locations |->
            <<[physicalLocation |->
                [artifactLocation |-> [uri |-> artifact_uri(lintrunner_result.path)],
                 region |-> [startLine |-> OrOne(lintrunner_result.line),
                             startColumn |-> OrOne(lintrunner_result.char)]]]>>],
     rule |->
        [id |-> format_rule_name(lintrunner_result),
         rule |->
            [id |-> format_rule_name(lintrunner_result),
             name |-> format_rule_name(lintrunner_result),
             shortDescription |-> [text |-> format_rule_name(lintrunner_result)],
             fullDescription |->
                [text |-> format_rule_name(lintrunner_result) \o <<"\n">>
                          \o lintrunner_result.description],
             defaultConfiguration |->
                [level |-> severity_to_github_level(lintrunner_result.severity)]]]]

\* hashlib.sha1(rule_id).hexdigest(): a digest, taken to be free of collisions
hash_rule_id(rule_id) == <<"sha1">> \o rule_id

\* delete_default on an artifact location: a key whose value is None is deleted
legacy_artifact_location(path) == IF path = None THEN <<>> ELSE [uri |-> path[1]]

\* tools/convert_to_sarif.parse_single_lintrunner_result, as attrs.asdict and
\* delete_default leave it
legacy_parse_single_lintrunner_result(lintrunner_result) ==
    [result |->
        [rule_id |-> hash_rule_id(format_rule_name(lintrunner_result)),
         level |-> legacy_severity_to_github_level(lintrunner_result.severity),
         message |-> [text |-> lintrunner_result.description],
         locations |->
            <<[physical_location |->
                [artifact_location |-> legacy_artifact_location(lintrunner_result.path),
                 region |-> [start_line |-> OrOne(lintrunner_result.line),
                             start_column |-> OrOne(lintrunner_result.char)]]]>>],
     rule |->
        [id |-> format_rule_name(lintrunner_result),
         rule |->
            [id |-> hash_rule_id(format_rule_name(lintrunner_result)),
             name |-> format_rule_name(lintrunner_result),
             short_description |-> [text |-> lintrunner_result.description],
             full_description |-> [text |-> lintrunner_result.description],
             default_configuration |-> [level |-> lintrunner_result.severity]]]]

\* rules[key] = value on a dict, which keeps the order of first insertion
DictSet(items, key, value) ==
    IF \E i \in 1..Len(items) : items[i].key = key
    THEN [i \in 1..Len(items) |->
            IF items[i].key = key THEN [key |-> key, value |-> value] ELSE items[i]]
    ELSE Append(items, [key |-> key, value |-> value])

\* list(rules.values())
DictValues(items) == [i \in 1..Len(items) |-> items[i].value]

\* the rules dict after the loop over the parsed results
RECURSIVE RulesDict(_)
RulesDict(parsed) ==
    IF parsed = <<>> THEN <<>>
    ELSE LET rule == parsed[Len(parsed)].rule
         IN  DictSet(RulesDict(SubSeq(parsed, 1, Len(parsed) - 1)), rule.id, rule.rule)

\* the document around the rules and the results
SarifLog(rules, results) ==
    [version |-> "2.1.0",
     runs |-> <<[tool |-> [driver |-> [name |-> "lintrunner", rules |-> rules]],
                 results |-> results]>>]

produce_sarif_reversed(lintrunner_results) ==
    LET parsed == [i \in 1..Len(lintrunner_results) |->
                      parse_single_lintrunner_result(
                          lintrunner_results[Len(lintrunner_results) + 1 - i])]
    IN  SarifLog(DictValues(RulesDict(parsed)),
                 [i \in 1..Len(parsed) |-> parsed[i].result])

\* lintrunner_adapters/tools/convert_to_sarif.produce_sarif
produce_sarif(lintrunner_results) ==
    LET parsed == [i \in 1..Len(lintrunner_results) |->
                      parse_single_lintrunner_result(lintrunner_results[i])]
    IN  SarifLog(DictValues(RulesDict(parsed)),
                 [i \in 1..Len(parsed) |-> parsed[i].result])

\* tools/convert_to_sarif.main: the same loop over the lines of the input
legacy_sarif(lintrunner_results) ==
    LET parsed == [i \in 1..Len(lintrunner_results) |->
                      legacy_parse_single_lintrunner_result(lintrunner_results[i])]
    IN  SarifLog(DictValues(RulesDict(parsed)),
                 [i \in 1..Len(parsed) |-> parsed[i].result])

\* the Messages lintrunner writes, one JSON object per line
SarifCodeNames ==
    {[code |-> <<"A">>, name |-> <<"C">>],
     [code |-> <<"A">>, name |-> <<"B", "/", "C">>],
     [code |-> <<"A", "/", "B">>, name |-> <<"C">>]}

\* no path and no line (a command failure), an absolute path, a relative path
\* with and without a line
SarifLocations ==
    {[path |-> None, line |-> None, char |-> None],
     [path |-> Some(<<"/", "t">>), line |-> Some(3), char |-> Some(2)],
     [path |-> Some(<<"t">>), line |-> Some(3), char |-> Some(2)],
     [path |-> Some(<<"t">>), line |-> None, char |-> None]}

LintrunnerResults ==
    {[path |-> at.path, line |-> at.line, char |-> at.char, code |-> cn.code,
      severity |-> sv, name |-> cn.name, description |-> <<"d">>] :
        at \in SarifLocations, cn \in SarifCodeNames, sv \in LintSeverity}

SarifOff ==
    /\ sarif_pc = "off"
    /\ converter = "none"
    /\ lintrunner_jsons = <<>>
    /\ sarif = SarifLog(<<>>, <<>>)

SarifStart ==
    /\ sarif_pc = "ready"
    /\ converter = "none"
    /\ lintrunner_jsons \in SeqsUpTo(LintrunnerResults, MaxMessages)
    /\ sarif = SarifLog(<<>>, <<>>)

\* lintrunner_adapters/tools/convert_to_sarif.main
ProduceSarif ==
    /\ sarif_pc = "ready"
    /\ sarif_pc' = "done"
    /\ converter' = "package"
    /\ sarif' = produce_sarif(lintrunner_jsons)
    /\ UNCHANGED <<lintrunner_jsons, notSarifVars>>

\* tools/convert_to_sarif.main
LegacyMain ==
    /\ sarif_pc = "ready"
    /\ sarif_pc' = "done"
    /\ converter' = "legacy"
    /\ sarif' = legacy_sarif(lintrunner_jsons)
    /\ UNCHANGED <<lintrunner_jsons, notSarifVars>>

\* ------------------------------------------------------ __main__.run_adapter
\* The adapter's process: pc is where its main is, returncode and failure are
\* set when it has exited.
Child(pc, returncode, failure) ==
    [pc |-> pc, returncode |-> returncode, failure |-> failure]

NoChild == Child("off", 0, "none")

\* the adapters found under adapters/*.py that the model runs
CliAdapters == {"clangformat_linter", "grep_linter"}

\* args[0] absent, not an adapter, or an adapter; whether argparse accepts the
\* rest; whether --fallback was given
CliArguments ==
    {[adapter |-> a, valid |-> v, fallback |-> f] :
        a \in {"", "unknown"} \cup CliAdapters, v \in BOOLEAN, f \in BOOLEAN}

CliEnvironments == {[binary |-> b, on_path |-> w] : b \in BOOLEAN, w \in BOOLEAN}

CliOff ==
    /\ cli_pc = "off"
    /\ cli_args = [adapter |-> "", valid |-> FALSE, fallback |-> FALSE]
    /\ cli_env = [binary |-> FALSE, on_path |-> FALSE]
    /\ child = NoChild
    /\ cli_shown = <<>>
    /\ cli_exit = 0

CliStart ==
    /\ cli_pc = "start"
    /\ cli_args \in CliArguments
    /\ cli_env \in CliEnvironments
    /\ child = NoChild
    /\ cli_shown = <<>>
    /\ cli_exit = 0

\* sys.exit(status) of the front end
CliExit(status) ==
    /\ cli_pc' = "exited"
    /\ cli_exit' = status
    /\ UNCHANGED <<cli_args, cli_env, child, cli_shown, notCliVars>>

\* a step of the adapter's process
ChildStep(next, names) ==
    /\ child' = next
    /\ cli_shown' = cli_shown \o names
    /\ UNCHANGED <<cli_pc, cli_args, cli_env, cli_exit, notCliVars>>

\* if not len(args): print the usage, sys.exit(1)
Usage ==
    /\ cli_pc = "start"
    /\ cli_args.adapter = ""
    /\ CliExit(1)

\* if adapter_name not in adapters: sys.exit(1)
UnknownExecutable ==
    /\ cli_pc = "start"
    /\ cli_args.adapter = "unknown"
    /\ CliExit(1)

\* subprocess.run([sys.executable, adapters[adapter_name], *args[1:]], check=True)
SubprocessRun ==
    /\ cli_pc = "start"
    /\ cli_args.adapter \in CliAdapters
    /\ cli_pc' = "child"
    /\ child' = Child("parse_args", 0, "none")
    /\ UNCHANGED <<cli_args, cli_env, cli_shown, cli_exit, notCliVars>>

\* parser.parse_args(): argparse exits with 2 on arguments it rejects
ParseArgs ==
    /\ child.pc = "parse_args"
    /\ IF cli_args.valid
       THEN ChildStep(Child("main", 0, "none"), <<>>)
       ELSE ChildStep(Child("exited", 2, "invalid-arguments"), <<>>)

\* clangformat_linter.main: the binary, or with --fallback clang-format from
\* PATH; without either an init-error Message and sys.exit(0)
ClangformatBinary ==
    /\ child.pc = "main"
    /\ cli_args.adapter = "clangformat_linter"
    /\ IF cli_env.binary \/ (cli_args.fallback /\ cli_env.on_path)
       THEN ChildStep(Child("pool", 0, "none"), <<>>)
       ELSE ChildStep(Child("exited", 0, "not-found"), <<"init-error">>)

\* clangformat_linter.main: the units of work; an exception of a unit is
\* re-raised and ends the process with a traceback, status 1
ClangformatPool ==
    /\ child.pc = "pool"
    /\ \/ \E names \in SeqsUpTo({"format", "timeout", "command-failed"}, MaxFindings) :
             ChildStep(Child("exited", 0, "none"), names)
       \/ \E names \in SeqsUpTo({"format"}, MaxFindings) :
             ChildStep(Child("exited", 1, "crashed"), names)

\* grep_linter.main: run_command(["grep", ...]); whatever it raises becomes a
\* command-failed Message and sys.exit(0)
GrepRun ==
    /\ child.pc = "main"
    /\ cli_args.adapter = "grep_linter"
    /\ IF cli_env.on_path
       THEN ChildStep(Child("lines", 0, "none"), <<>>)
       ELSE ChildStep(Child("exited", 0, "not-found"), <<"command-failed">>)

\* grep_linter.main: proc.stdout.decode() and lint_file for every line
GrepLines ==
    /\ child.pc = "lines"
    /\ \/ \E names \in SeqsUpTo({"error-name", "command-failed"}, MaxFindings) :
             ChildStep(Child("exited", 0, "none"), names)
       \/ \E names \in SeqsUpTo({"error-name"}, MaxFindings) :
             ChildStep(Child("exited", 1, "crashed"), names)

\* except subprocess.CalledProcessError as e: sys.exit(e.returncode); otherwise
\* run_adapter returns and the front end exits with 0
RunAdapterExit ==
    /\ cli_pc = "child"
    /\ child.pc = "exited"
    /\ CliExit(child.returncode)

\* ------------------------------------------------- clippy_linter.check_files
\* A path is the sequence of its components below the root of the file system;
\* a Cargo.toml is named by the directory that holds it.
ClippyFiles == {<<"a", "x.rs">>, <<"a", "b", "y.rs">>, <<"c", "z.rs">>}

ClippyDirs == {<<>>, <<"a">>, <<"a", "b">>, <<"c">>}

\* the requests: files in any order, none twice
ClippyRequests ==
    {f \in SeqsUpTo(ClippyFiles, MaxFiles) :
        \A i, j \in 1..Len(f) : i # j => f[i] # f[j]}

\* path.parents, nearest first: the k-th is the path without its last k components
Parent(path, k) == SubSeq(path, 1, Len(path) - k)

\* is_relative_to(path, parent)
is_relative_to(path, parent) == StartsWith(path, parent)

\* find_cargo_root: the first of path.parents that holds a Cargo.toml, or None
find_cargo_root(path, tomls) ==
    IF \E k \in 1..Len(path) : Parent(path, k) \in tomls
    THEN Some(Parent(path, CHOOSE k \in 1..Len(path) :
                  /\ Parent(path, k) \in tomls
                  /\ \A j \in 1..(k - 1) : Parent(path, j) \notin tomls))
    ELSE None

\* find_cargo_toml_files: a file under the directory of a root already found is
\* skipped; otherwise its root, if it has one, is added
RECURSIVE find_cargo_toml_files(_, _)
find_cargo_toml_files(filenames, tomls) ==
    IF filenames = <<>> THEN {}
    ELSE LET known == find_cargo_toml_files(SubSeq(filenames, 1, Len(filenames) - 1),
                                           tomls)
             filename == filenames[Len(filenames)]
             cargo_toml == find_cargo_root(filename, tomls)
         IN  IF \E root \in known : is_relative_to(filename, root) THEN known
             ELSE IF cargo_toml = None THEN known
             ELSE known \cup {cargo_toml[1]}

\* check_cargo_toml: run_command(["cargo", "clippy", ...], retries=retries,
\* cwd=cargo_toml.parent), and run_command takes no cwd: the call raises
\* TypeError, which neither except clause catches
check_cargo_toml(cargo_toml, filenames) == Raised("TypeError")

ClippyOff ==
    /\ clippy_pc = "off"
    /\ clippy_filenames = <<>>
    /\ cargo_tomls = {}
    /\ all_cargo_tomls = {}
    /\ clippy_ran = <<>>
    /\ clippy_result = Returned(<<>>)

ClippyStart ==
    /\ clippy_pc = "start"
    /\ clippy_filenames \in ClippyRequests
    /\ cargo_tomls \in SUBSET ClippyDirs
    /\ all_cargo_tomls = {}
    /\ clippy_ran = <<>>
    /\ clippy_result = Returned(<<>>)

\* check_files: all_cargo_tomls = find_cargo_toml_files(absolute_paths)
FindCargoTomlFiles ==
    /\ clippy_pc = "start"
    /\ clippy_pc' = "found"
    /\ all_cargo_tomls' = find_cargo_toml_files(clippy_filenames, cargo_tomls)
    /\ UNCHANGED <<clippy_filenames, cargo_tomls, clippy_ran, clippy_result,
                   notClippyVars>>

\* check_files: the next root of the set, in whatever order the set gives;
\* what check_cargo_toml raises leaves check_files
CheckCargoToml ==
    /\ clippy_pc = "found"
    /\ \E cargo_toml \in all_cargo_tomls :
          /\ \A i \in 1..Len(clippy_ran) : clippy_ran[i] # cargo_toml
          /\ clippy_ran' = Append(clippy_ran, cargo_toml)
          /\ LET outcome == check_cargo_toml(cargo_toml, clippy_filenames)
             IN  IF outcome.kind = "raise"
                 THEN clippy_pc' = "done" /\ clippy_result' = outcome
                 ELSE /\ clippy_pc' = "found"
                      /\ clippy_result' = Returned(clippy_result.msgs \o outcome.msgs)
    /\ UNCHANGED <<clippy_filenames, cargo_tomls, all_cargo_tomls, notClippyVars>>

\* check_files: every root of the set was run; return lint_messages
ClippyReturn ==
    /\ clippy_pc = "found"
    /\ \A cargo_toml \in all_cargo_tomls :
          \E i \in 1..Len(clippy_ran) : clippy_ran[i] = cargo_toml
    /\ clippy_pc' = "done"
    /\ UNCHANGED <<clippy_filenames, cargo_tomls, all_cargo_tomls, clippy_ran,
                   clippy_result, notClippyVars>>

\* ------------------------------------------------------------ mypy_linter.main
\* The files of the working directory, as a request or mypy may spell them.
MypyPaths == {"a.py", "./a.py", "a.pyi", "b.py", "lib.py"}

\* str(pathlib.Path(path).resolve())
Resolve(path) ==
    CASE path \in {"a.py", "./a.py"} -> "/w/a.py"
      [] path \in {"a.pyi", "./a.pyi"} -> "/w/a.pyi"
      [] path = "b.py" -> "/w/b.py"
      [] path = "b.pyi" -> "/w/b.pyi"
      [] OTHER -> "/w/lib.py"

\* filename.replace(".py", ".pyi")
StubFilename(filename) ==
    CASE filename = "a.py" -> "a.pyi"
      [] filename = "./a.py" -> "./a.pyi"
      [] filename = "b.py" -> "b.pyi"
      [] OTHER -> "lib.pyi"

\* the stub files of the working directory that exist, under each spelling
MypyStubs == SUBSET {"a.pyi", "b.pyi"}

StubExists(stub, stubs) ==
    \/ stub \in stubs
    \/ (stub = "./a.pyi" /\ "a.pyi" \in stubs)

\* filenames[key] = True on a dict that keeps insertion order
DictAdd(keys, key) ==
    IF \E i \in 1..Len(keys) : keys[i] = key THEN keys ELSE Append(keys, key)

\* main: a stub is checked instead of the file it belongs to
RECURSIVE mypy_filenames_dict(_, _)
mypy_filenames_dict(filenames, stubs) ==
    IF filenames = <<>> THEN <<>>
    ELSE LET before == mypy_filenames_dict(SubSeq(filenames, 1, Len(filenames) - 1),
                                           stubs)
             filename == filenames[Len(filenames)]
         IN  IF filename = "a.pyi" THEN DictAdd(before, filename)
             ELSE IF StubExists(StubFilename(filename), stubs)
             THEN DictAdd(before, StubFilename(filename))
             ELSE DictAdd(before, filename)

\* the lines of mypy's output that RESULTS_RE matches: mypy also reports on
\* files that the checked files import
MypyMatches ==
    {[file |-> f, line |-> 15, column |-> Some(13), severity |-> sv,
      code |-> "assignment"] :
        f \in {"a.py", "a.pyi", "./a.pyi", "b.py", "lib.py"}, sv \in {"error", "note"}}

MypyOutputs ==
    {ToolOutput("binary", <<>>)}
    \cup {ToolOutput("text", d) : d \in SeqsUpTo(MypyMatches, MaxFindings)}

\* run_command([sys.executable, "-mmypy", ...], retries=retries): no timeout,
\* check=False
MypyRuns ==
    RunResults(FALSE, FALSE, MypyOutputs, {EmptyStdErr}, MypyOutputs, PlainStdErrs)

mypy_finding(match) ==
    LintMessage(Some(match.file), Some(match.line), match.column, "MYPY",
                IF match.severity = "note" THEN "advice" ELSE "error",
                match.code, None, None, "message")

\* mypy_linter.check_files
mypy_check_files(filenames, proc) ==
    IF proc.kind = "OSError"
    THEN Returned(<<LintMessage(None, None, None, "MYPY", "error", "command-failed",
                                None, None, "Failed due to")>>)
    ELSE IF proc.stdout.enc = "binary" THEN Raised("UnicodeDecodeError")
    ELSE Returned([i \in 1..Len(proc.stdout.doc) |-> mypy_finding(proc.stdout.doc[i])])

\* main: notes are shown only under --show-notes; a Message with a path is
\* shown only when the path resolves to one of all_files
MypyShown(lint_message, filenames, show_notes) ==
    /\ ~(lint_message.severity = "advice" /\ ~show_notes)
    /\ lint_message.path # None =>
          Resolve(lint_message.path[1]) \in {Resolve(filenames[i]) : i \in 1..Len(filenames)}

RECURSIVE SelectShown(_, _, _)
SelectShown(lint_messages, filenames, show_notes) ==
    IF lint_messages = <<>> THEN <<>>
    ELSE LET rest == SelectShown(Tail(lint_messages), filenames, show_notes)
         IN  IF MypyShown(Head(lint_messages), filenames, show_notes)
             THEN <<Head(lint_messages)>> \o rest
             ELSE rest

MypyOff ==
    /\ mypy_pc = "off"
    /\ mypy_args = [filenames |-> <<>>, show_notes |-> FALSE]
    /\ mypy_stubs = {}
    /\ mypy_filenames = <<>>
    /\ mypy_messages = Returned(<<>>)
    /\ mypy_displayed = <<>>

MypyStart ==
    /\ mypy_pc = "start"
    /\ mypy_args \in {[filenames |-> f, show_notes |-> n] :
                        f \in SeqsUpTo({"a.py", "./a.py", "a.pyi", "b.py"}, MaxFiles)
                              \ {<<>>},
                        n \in BOOLEAN}
    /\ mypy_stubs \in MypyStubs
    /\ mypy_filenames = <<>>
    /\ mypy_messages = Returned(<<>>)
    /\ mypy_displayed = <<>>

\* main: the loop that fills the filenames dict
MypySubstituteStubs ==
    /\ mypy_pc = "start"
    /\ mypy_pc' = "substituted"
    /\ mypy_filenames' = mypy_filenames_dict(mypy_args.filenames, mypy_stubs)
    /\ UNCHANGED <<mypy_args, mypy_stubs, mypy_messages, mypy_displayed, notMypyVars>>

\* main: lint_messages = check_files(list(filenames), ...)
MypyCheckFiles ==
    /\ mypy_pc = "substituted"
    /\ \E proc \in MypyRuns :
          /\ mypy_messages' = mypy_check_files(mypy_filenames, proc)
          /\ mypy_pc' = IF mypy_messages'.kind = "raise" THEN "done" ELSE "checked"
    /\ UNCHANGED <<mypy_args, mypy_stubs, mypy_filenames, mypy_displayed, notMypyVars>>

\* main: the loop that filters and displays
MypyDisplay ==
    /\ mypy_pc = "checked"
    /\ mypy_pc' = "done"
    /\ mypy_displayed' =
          SelectShown(mypy_messages.msgs, mypy_filenames, mypy_args.show_notes)
    /\ UNCHANGED <<mypy_args, mypy_stubs, mypy_filenames, mypy_messages, notMypyVars>>

\* ------------------------------------------------- LintMessage.display, logging
\* one write() call on a stream, and the thread that made it: 0 is the main
\* thread, u the worker thread that runs unit u
Chunk(stream, thread, unit, index, part) ==
    [stream |-> stream, thread |-> thread, unit |-> unit, index |-> index,
     part |-> part]

LogStream_stdout == "stdout"

\* logging.basicConfig(..., stream=sys.stderr)
LogStream == "stderr"

SinkOff ==
    /\ s_units = <<>>
    /\ s_main = [pc |-> "off", unit |-> 0, index |-> 0]
    /\ sink = <<>>

\* args.filenames of the run
sink_filenames == <<"a.py", "b.py">>

\* every file is submitted and its check_file runs in a worker thread
SinkStart ==
    /\ s_units = [u \in DOMAIN sink_filenames |-> [state |-> "running", msgs |-> 0]]
    /\ s_main = [pc |-> "as_completed", unit |-> 0, index |-> 0]
    /\ sink = <<>>

\* _run_command in a worker thread: logging.debug("$ %s", ...), one write of
\* the handler on the logging stream
LogCommand ==
    /\ \E u \in DOMAIN s_units :
          /\ s_units[u].state = "running"
          /\ s_units' = [s_units EXCEPT ![u].state = "ran"]
          /\ sink' = Append(sink, Chunk(LogStream, u, u, 1, "line"))
    /\ UNCHANGED s_main
    /\ UNCHANGED notSinkVars

\* finally: logging.debug("took %dms", ...); then check_file returns its
\* Messages to the future
LogTook ==
    /\ \E u \in DOMAIN s_units, n \in 0..MaxFindings :
          /\ s_units[u].state = "ran"
          /\ s_units' = [s_units EXCEPT ![u] = [state |-> "finished", msgs |-> n]]
          /\ sink' = Append(sink, Chunk(LogStream, u, u, 2, "line"))
    /\ UNCHANGED s_main
    /\ UNCHANGED notSinkVars

\* for future in as_completed(futures): for lint_message in future.result()
AsCompleted ==
    /\ s_main.pc = "as_completed"
    /\ \E u \in DOMAIN s_units :
          /\ s_units[u].state = "finished"
          /\ s_units' = [s_units EXCEPT ![u].state = "yielded"]
          /\ s_main' = IF s_units[u].msgs = 0
                        THEN s_main
                        ELSE [pc |-> "print", unit |-> u, index |-> 1]
    /\ UNCHANGED sink
    /\ UNCHANGED notSinkVars

\* display(): print(json.dumps(...), flush=True) writes the record ...
PrintWrite ==
    /\ s_main.pc = "print"
    /\ sink' = Append(sink, Chunk("stdout", 0, s_main.unit, s_main.index,
                                   "text"))
    /\ s_main' = [s_main EXCEPT !.pc = "end"]
    /\ UNCHANGED s_units
    /\ UNCHANGED notSinkVars

\* ... and then the newline, in a second write, and flushes
PrintEnd ==
    /\ s_main.pc = "end"
    /\ sink' = Append(sink, Chunk("stdout", 0, s_main.unit, s_main.index,
                                   "end"))
    /\ s_main' = IF s_main.index = s_units[s_main.unit].msgs
                  THEN [pc |-> "as_completed", unit |-> 0, index |-> 0]
                  ELSE [s_main EXCEPT !.pc = "print", !.index = s_main.index + 1]
    /\ UNCHANGED s_units
    /\ UNCHANGED notSinkVars

\* ------------------------------------------- --retries, --timeout, run_command
\* The adapters whose parser has --retries and --timeout and whose main does
\* reach its check function.
DeadlineAdapters ==
    {"bandit", "black_isort", "clangformat", "django_upgrade", "docformatter",
     "ruff_fix"}

\* The first run_command call of the adapter's check function, as written:
\* retries is args.retries where the call passes retries=, and run_command's
\* default 0 where it does not; timeout= is passed by all of them.
RunCommandArguments(adapter, args_retries) ==
    CASE adapter = "bandit" ->
            [retries |-> 0, check |-> TRUE, stdin_mode |-> "none"]
      [] adapter = "clangformat" ->
            [retries |-> args_retries, check |-> TRUE, stdin_mode |-> "none"]
      [] adapter = "docformatter" ->
            [retries |-> args_retries, check |-> FALSE, stdin_mode |-> "input"]
      [] OTHER ->
            [retries |-> args_retries, check |-> TRUE, stdin_mode |-> "stdin"]

\* the same, had every adapter passed retries=args.retries
RunCommandArguments_retried(adapter, args_retries) ==
    [RunCommandArguments(adapter, args_retries) EXCEPT !.retries = args_retries]

OptionsOff ==
    /\ opt_adapter = "none"
    /\ opt_retries = 0

\* args = parser.parse_args()
OptionsParsed ==
    /\ opt_adapter \in DeadlineAdapters
    /\ opt_retries \in 0..MaxRetries

\* check_file calls run_command on one file
AdapterRunCommand ==
    /\ rpc = "idle"
    /\ opt_adapter \in DeadlineAdapters
    /\ \E p \in ByteStrings :
          LET call == RunCommandArguments(opt_adapter, opt_retries)
          IN  /\ call.stdin_mode = "none" => p = <<>>
              /\ retries' = call.retries
              /\ remaining_retries' = call.retries
              /\ has_timeout' = TRUE
              /\ check' = call.check
              /\ stdin_mode' = call.stdin_mode
              /\ payload' = p
    /\ rpc' = "try"
    /\ UNCHANGED <<fpos, stdin_seen, outcomes, run_result>>
    /\ UNCHANGED notRunnerVars

\* ------------------------------------------------------------ specifications
RunnerInit ==
    RunnerIdle /\ AdapterIdle /\ DriverOff /\ RequirementsOff /\ SeverityOff /\ SarifOff
    /\ CliOff /\ ClippyOff /\ MypyOff /\ OptionsOff /\ SinkOff

RunnerNext == RunCommandCall \/ RunAttempt \/ RunHandler

SpecRunner == RunnerInit /\ [][RunnerNext]_vars

AdapterInit ==
    AdapterIdle /\ RunnerIdle /\ DriverOff /\ RequirementsOff /\ SeverityOff /\ SarifOff
    /\ CliOff /\ ClippyOff /\ MypyOff /\ OptionsOff /\ SinkOff

AdapterNext ==
    \/ CheckBlackIsort
    \/ CheckDocformatter
    \/ CheckRustfmt
    \/ CheckRuffFix
    \/ CheckRuff
    \/ CheckBandit
    \/ CheckCmake
    \/ CheckGrep

SpecAdapter == AdapterInit /\ [][AdapterNext]_vars

DriverInit ==
    DriverStart /\ RunnerIdle /\ AdapterIdle /\ RequirementsOff /\ SeverityOff /\ SarifOff
    /\ CliOff /\ ClippyOff /\ MypyOff /\ OptionsOff /\ SinkOff

DriverNext ==
    \/ Submit
    \/ WorkerStart
    \/ WorkerFinish
    \/ NextFuture
    \/ Display
    \/ ExecutorExit

\* The main thread keeps running; nothing is assumed of the worker threads.
SpecFanOut == DriverInit /\ [][DriverNext]_vars /\ WF_vars(MainThread)

RequirementsInit ==
    /\ RequirementsStart /\ RunnerIdle /\ AdapterIdle /\ DriverOff
    /\ SeverityOff /\ SarifOff
    /\ CliOff /\ ClippyOff /\ MypyOff /\ OptionsOff /\ SinkOff

RequirementsNext == RequirementsCheckFile \/ ApplyPatch

SpecRequirements == RequirementsInit /\ [][RequirementsNext]_vars

SeverityInit ==
    /\ SeverityReady /\ RunnerIdle /\ AdapterIdle /\ DriverOff
    /\ RequirementsOff /\ SarifOff /\ CliOff /\ ClippyOff /\ MypyOff /\ OptionsOff
    /\ SinkOff

SeverityNext ==
    \/ MapClippy
    \/ MapFlake8
    \/ MapRuff
    \/ MapRuffFix
    \/ MapRefurb
    \/ MapBandit
    \/ MapMypy
    \/ MapPylint

SpecSeverity == SeverityInit /\ [][SeverityNext]_vars

SarifInit ==
    /\ SarifStart /\ RunnerIdle /\ AdapterIdle /\ DriverOff
    /\ RequirementsOff /\ SeverityOff /\ CliOff /\ ClippyOff /\ MypyOff
    /\ OptionsOff /\ SinkOff

SarifNext ==
    \/ ProduceSarif
    \/ LegacyMain

SpecSarif == SarifInit /\ [][SarifNext]_vars

CliInit ==
    /\ CliStart /\ RunnerIdle /\ AdapterIdle /\ DriverOff
    /\ RequirementsOff /\ SeverityOff /\ SarifOff /\ ClippyOff /\ MypyOff
    /\ OptionsOff /\ SinkOff

CliNext ==
    \/ Usage
    \/ UnknownExecutable
    \/ SubprocessRun
    \/ ParseArgs
    \/ ClangformatBinary
    \/ ClangformatPool
    \/ GrepRun
    \/ GrepLines
    \/ RunAdapterExit

SpecCli == CliInit /\ [][CliNext]_vars

ClippyInit ==
    /\ ClippyStart /\ RunnerIdle /\ AdapterIdle /\ DriverOff
    /\ RequirementsOff /\ SeverityOff /\ SarifOff /\ CliOff /\ MypyOff
    /\ OptionsOff /\ SinkOff

ClippyNext ==
    \/ FindCargoTomlFiles
    \/ CheckCargoToml
    \/ ClippyReturn

SpecClippy == ClippyInit /\ [][ClippyNext]_vars

MypyInit ==
    /\ MypyStart /\ RunnerIdle /\ AdapterIdle /\ DriverOff
    /\ RequirementsOff /\ SeverityOff /\ SarifOff /\ CliOff /\ ClippyOff
    /\ OptionsOff /\ SinkOff

MypyNext ==
    \/ MypySubstituteStubs
    \/ MypyCheckFiles
    \/ MypyDisplay

SpecMypy == MypyInit /\ [][MypyNext]_vars

DeadlineInit ==
    /\ OptionsParsed /\ RunnerIdle /\ AdapterIdle /\ DriverOff
    /\ RequirementsOff /\ SeverityOff /\ SarifOff /\ CliOff /\ ClippyOff /\ MypyOff
    /\ SinkOff

DeadlineNext ==
    \/ AdapterRunCommand
    \/ RunAttempt
    \/ RunHandler

SpecDeadline == DeadlineInit /\ [][DeadlineNext]_vars

SinkInit ==
    /\ SinkStart /\ RunnerIdle /\ AdapterIdle /\ DriverOff /\ RequirementsOff
    /\ SeverityOff /\ SarifOff /\ CliOff /\ ClippyOff /\ MypyOff /\ OptionsOff

SinkNext ==
    \/ LogCommand
    \/ LogTook
    \/ AsCompleted
    \/ PrintWrite
    \/ PrintEnd

SpecSink == SinkInit /\ [][SinkNext]_vars

\* -------------------------------------------------------------------- claims
AllTimedOut == \A i \in 1..Len(outcomes) : outcomes[i].kind = "timeout"

LastOutcome == outcomes[Len(outcomes)]

\* C1: a command that times out on every attempt is executed exactly
\* retries + 1 times, never more, and then run_command raises TimeoutExpired.
C1_TimeoutRetryBound ==
    /\ AllTimedOut => Len(outcomes) <= retries + 1
    /\ (rpc = "done" /\ AllTimedOut) =>
          /\ Len(outcomes) = retries + 1
          /\ run_result = [kind |-> "TimeoutExpired"]
    /\ run_result.kind = "TimeoutExpired" => AllTimedOut /\ rpc = "done"

C1_Witness ==
    /\ rpc = "done"
    /\ retries >= 1
    /\ run_result.kind = "TimeoutExpired"
    /\ Len(outcomes) = retries + 1

\* C2: every attempt, the first and every retry, has the complete payload on
\* its standard input, whether it was given as input= or as stdin=.
C2_RetryGetsWholePayload ==
    (outcomes # <<>> /\ stdin_mode \in {"input", "stdin"}) => stdin_seen = payload

\* C3: only a timeout is followed by another attempt; a launch failure or an
\* exit surfaces after that attempt as OSError, as CalledProcessError under
\* check=True, or as the returned CompletedProcess with the exit status.
C3_OnlyTimeoutRetried ==
    /\ \A i \in 1..(Len(outcomes) - 1) : outcomes[i].kind = "timeout"
    /\ (outcomes # <<>> /\ LastOutcome.kind # "timeout") => rpc = "done"
    /\ (rpc = "done" /\ LastOutcome.kind = "oserror") =>
          run_result = [kind |-> "OSError"]
    /\ (rpc = "done" /\ LastOutcome.kind = "exit" /\ LastOutcome.code # 0) =>
          run_result = [kind |-> IF check THEN "CalledProcessError"
                                          ELSE "CompletedProcess",
                        returncode |-> LastOutcome.code]

C3_Witness ==
    /\ rpc = "done"
    /\ remaining_retries >= 1
    /\ has_timeout
    /\ Len(outcomes) >= 2
    /\ LastOutcome.kind \in {"oserror", "exit"}
    /\ LastOutcome.kind = "exit" => LastOutcome.code # 0

\* What the claims about one check function speak of.
TimedOut == \E i \in 1..Len(a_runs) : a_runs[i].result.kind = "TimeoutExpired"

FormattingAdapters == {"black_isort", "docformatter", "rustfmt", "ruff_fix"}

\* The file was read and every tool the check function ran exited with 0.
ToolSucceeded ==
    /\ a_pc = "done"
    /\ a_adapter \in FormattingAdapters
    /\ a_file.kind = "CompletedProcess"
    /\ Len(a_runs) = (IF a_adapter \in {"black_isort", "ruff_fix"} THEN 2 ELSE 1)
    /\ \A i \in 1..Len(a_runs) :
          /\ a_runs[i].result.kind = "CompletedProcess"
          /\ a_runs[i].result.returncode = 0

\* The rewritten file: the output of black, docformatter, rustfmt, ruff --fix.
FinalOutput ==
    IF a_adapter = "ruff_fix" THEN a_runs[1].result.stdout
    ELSE a_runs[Len(a_runs)].result.stdout

\* C4: a run_command that ends in TimeoutExpired makes the check function
\* return exactly one Message named "timeout" whose path is the file; the
\* timeout does not leave the check function as an exception.
C4_TimeoutIsOneMessage ==
    (a_pc = "done" /\ TimedOut) =>
        /\ a_result.kind = "return"
        /\ Len(a_result.msgs) = 1
        /\ a_result.msgs[1].name = "timeout"
        /\ \E i \in 1..Len(a_filenames) : a_result.msgs[1].path = Some(a_filenames[i])

\* C9: when the output of the tool equals the content of the file, the check
\* function of a formatting adapter returns no Message.
C9_NoOpIsSilent ==
    (ToolSucceeded /\ FinalOutput = a_file.stdout) => a_result = Returned(<<>>)

ReachesFormatMessage ==
    /\ ToolSucceeded
    /\ FinalOutput # a_file.stdout
    /\ IsUtf8(a_file.stdout) /\ IsUtf8(FinalOutput)
    /\ a_adapter = "docformatter" => FinalOutput # <<>>
    /\ a_adapter = "rustfmt" => ~a_runs[1].result.stderr.error_prefix
    /\ a_adapter = "ruff_fix" =>
          /\ a_runs[2].result.stdout.enc = "json"
          /\ (a_args.explain /\ a_runs[2].result.stdout.doc # <<>>) =>
                a_args.explained = "ok"

IsPrefix(s, t) == Len(s) <= Len(t) /\ SubSeq(t, 1, Len(s)) = s

\* The records on standard output that came from unit u, in output order.
RecordsOf(u) ==
    LET lines == SelectSeq(sys_stdout, LAMBDA e : e.unit = u)
    IN  [i \in 1..Len(lines) |-> lines[i].record]

Returned_(u) == u \in DOMAIN futures /\ futures[u].outcome.kind = "return"

Raised_(u) == u \in DOMAIN futures /\ futures[u].outcome.kind = "raise"

AllEmitted(u) == u \in DOMAIN futures /\ RecordsOf(u) = futures[u].outcome.msgs

DomainFailures == {"TimeoutExpired", "UnicodeDecodeError", "CalledProcessError"}

Units == 1..Len(args_filenames)

\* C5: when the run is over, a unit that ended in a domain failure (timeout,
\* decode failure, nonzero exit) has not kept the Messages returned by any
\* sibling unit from standard output.
C5_SiblingsStillEmitted ==
    (/\ m_pc = "exited"
     /\ \A u \in Units : Raised_(u) => futures[u].outcome.exc \in DomainFailures)
    => \A v \in Units : Returned_(v) => AllEmitted(v)

\* C6: once future.result() of a unit has raised, main has logged that unit's
\* file and nothing else, the exception is on its way out and the process
\* exits with a nonzero status (and only then); standard output is only ever
\* appended to.
C6_LogReraiseKeep ==
    /\ [](/\ (\E u \in yielded : Raised_(u)) <=> m_pc \in {"raised", "exited"}
                                                 /\ sys_stderr # <<>>
          /\ sys_stderr # <<>> =>
                /\ Raised_(future)
                /\ sys_stderr = <<args_filenames[future]>>
          /\ m_pc = "exited" =>
                exitcode = Some(IF sys_stderr # <<>> THEN 1 ELSE 0)
          /\ m_pc # "exited" => exitcode = None)
    /\ [][IsPrefix(sys_stdout, sys_stdout')]_vars

C6_Witness ==
    /\ m_pc = "exited"
    /\ exitcode = Some(1)
    /\ sys_stderr = <<"b.py">>
    /\ sys_stdout # <<>>

\* C7: at every moment the records of one unit on standard output are an
\* initial part of the list its check function returned, in the same order,
\* whatever the order in which the units complete.
C7_PerUnitOrder ==
    \A u \in DOMAIN futures : IsPrefix(RecordsOf(u), futures[u].outcome.msgs)

\* two Messages of the unit submitted last come out, in their order, before
\* one of the unit submitted first
C7_Witness ==
    /\ Len(sys_stdout) >= 3
    /\ sys_stdout[1].unit = 3 /\ sys_stdout[2].unit = 3
    /\ sys_stdout[1].record # sys_stdout[2].record
    /\ sys_stdout[3].unit = 1
    /\ RecordsOf(3) = futures[3].outcome.msgs

NoneRaised == \A u \in DOMAIN futures : ~Raised_(u)

\* C8: no Message of a unit is printed twice; when the run ends and no unit
\* raised, every Message of every unit is on standard output; and once a unit
\* has finished and returned, all its Messages get printed (unless some unit
\* has raised), whether or not the other units ever finish.
C8_EmittedOncePromptly ==
    /\ [](/\ \A i, j \in 1..Len(sys_stdout) :
                (/\ sys_stdout[i].unit = sys_stdout[j].unit
                 /\ sys_stdout[i].index = sys_stdout[j].index) => i = j
          /\ \A u \in DOMAIN futures :
                Len(RecordsOf(u)) <= Len(futures[u].outcome.msgs)
          /\ (m_pc = "exited" /\ NoneRaised) =>
                \A u \in Units : AllEmitted(u))
    /\ \A u \in Units :
          (u \in DOMAIN futures /\ futures[u].state = "finished" /\ Returned_(u))
             ~> (AllEmitted(u) \/ ~NoneRaised)

\* the Messages of a finished unit are out while another unit still runs
C8_Witness ==
    /\ NoneRaised
    /\ \E u \in DOMAIN futures :
          /\ futures[u].state = "finished"
          /\ Len(futures[u].outcome.msgs) = 2
          /\ AllEmitted(u)
    /\ \E v \in DOMAIN futures : futures[v].state = "running"
    /\ \E w \in DOMAIN futures : futures[w].state = "queued"

\* C11: once the replacement a formatting adapter proposed is written to the
\* file, check_file on that file returns no Message; and fix_requirements
\* applied to its own result returns that result.
C11_FormattingIsFixedPoint ==
    /\ (req_pc = "checked" /\ req_round = 2) => req_result = Returned(<<>>)
    /\ LET fixed == fix_requirements(req_file)
       IN  fixed.kind = "return" => fix_requirements(fixed.bytes) = fixed

\* C12: whatever native code or level an adapter's mapping receives, it
\* returns one of error, warning, advice, disabled; it does not raise.
C12_SeverityMappingTotal ==
    sev_pc = "mapped" =>
        /\ sev_result.kind = "return"
        /\ sev_result.severity \in LintSeverity

\* the document's single run, and what the converter that ran makes of the
\* i-th input Message
Run1 == sarif.runs[1]

ParsedBy(i) ==
    IF converter = "package"
    THEN parse_single_lintrunner_result(lintrunner_jsons[i])
    ELSE legacy_parse_single_lintrunner_result(lintrunner_jsons[i])

\* C13: the document has one run, with as many results as input Messages, the
\* i-th result being the one derived from the i-th Message; the empty input
\* gives a document with no results.
C13_ResultsInInputOrder ==
    sarif_pc = "done" =>
        /\ Len(sarif.runs) = 1
        /\ Len(Run1.results) = Len(lintrunner_jsons)
        /\ \A i \in 1..Len(lintrunner_jsons) : Run1.results[i] = ParsedBy(i).result

C13_Witness ==
    /\ sarif_pc = "done"
    /\ converter = "package"
    /\ Len(lintrunner_jsons) = 2
    /\ lintrunner_jsons[1] # lintrunner_jsons[2]
    /\ Run1.results[1] # Run1.results[2]
    /\ Len(Run1.results) = 2

\* the (code, name) pairs of the input, and the rules of the document
CodeNamePairs ==
    {<<lintrunner_jsons[i].code, lintrunner_jsons[i].name>> :
        i \in 1..Len(lintrunner_jsons)}

Rules == Run1.tool.driver.rules

\* C14: the rules array has one entry per distinct (code, name) pair of the
\* input: as many rules as distinct pairs, and for every pair exactly one rule
\* named after it.
C14_OneRulePerCodeName ==
    sarif_pc = "done" =>
        /\ Len(Rules) = Cardinality(CodeNamePairs)
        /\ \A i \in 1..Len(lintrunner_jsons) :
              Cardinality({r \in 1..Len(Rules) :
                  Rules[r].name = format_rule_name(lintrunner_jsons[i])}) = 1

\* SARIF's informational level for advice and disabled, the severity otherwise
InformationalLevel(severity) ==
    IF severity \in {"advice", "disabled"} THEN "note" ELSE severity

DefaultLevel(rule) ==
    IF converter = "package" THEN rule.defaultConfiguration.level
    ELSE rule.default_configuration.level

\* C15: the level of the i-th result is note when the i-th Message is advice
\* or disabled and the severity itself when it is error or warning; and the
\* default level of every rule is that of a Message the rule was made from.
C15_LevelMapping ==
    sarif_pc = "done" =>
        /\ \A i \in 1..Len(lintrunner_jsons) :
              Run1.results[i].level = InformationalLevel(lintrunner_jsons[i].severity)
        /\ \A r \in 1..Len(Rules) :
              \E i \in 1..Len(lintrunner_jsons) :
                  /\ Rules[r].name = format_rule_name(lintrunner_jsons[i])
                  /\ DefaultLevel(Rules[r]) =
                        InformationalLevel(lintrunner_jsons[i].severity)

\* the keys under which a physical location holds its artifact location
ArtifactLocationKeys == {"artifactLocation", "artifact_location"}

PhysicalLocations(result) ==
    {IF converter = "package" THEN result.locations[l].physicalLocation
     ELSE result.locations[l].physical_location : l \in 1..Len(result.locations)}

\* C16: the result of a Message whose path is null has no artifact location
\* in any of its locations.
C16_NoPathNoArtifactLocation ==
    sarif_pc = "done" =>
        \A i \in 1..Len(lintrunner_jsons) :
            lintrunner_jsons[i].path = None =>
                \A pl \in PhysicalLocations(Run1.results[i]) :
                    DOMAIN pl \cap ArtifactLocationKeys = {}

\* C17: the artifact uri of the result of a Message with a path is file://
\* followed by the path, whether the path is absolute or relative.
C17_UriIsFilePrefixedPath ==
    (sarif_pc = "done" /\ converter = "package") =>
        \A i \in 1..Len(lintrunner_jsons) :
            lintrunner_jsons[i].path # None =>
                Run1.results[i].locations[1].physicalLocation.artifactLocation.uri
                    = Some(<<"f", "i", "l", "e", ":", "/", "/">>
                           \o lintrunner_jsons[i].path[1])

\* C18: the message text of the i-th result is the rule name code/name, a
\* newline, and the description of the i-th Message.
C18_MessageTextHasRuleName ==
    (sarif_pc = "done" /\ converter = "package") =>
        \A i \in 1..Len(lintrunner_jsons) :
            Run1.results[i].message.text
                = format_rule_name(lintrunner_jsons[i]) \o <<"\n">>
                  \o lintrunner_jsons[i].description

\* The tool succeeded and the check function had to decode bytes that are
\* not UTF-8: the content of the file or the rewritten file.
DecodeFails ==
    /\ ToolSucceeded
    /\ FinalOutput # <<>>
    /\ FinalOutput # a_file.stdout
    /\ ~(IsUtf8(a_file.stdout) /\ IsUtf8(FinalOutput))

\* C19: no check function lets UnicodeDecodeError out; bytes that do not
\* decode as UTF-8 make it return exactly one error Message named
\* "decode-failed".
C19_DecodeFailureIsOneMessage ==
    a_pc = "done" =>
        /\ a_result # Raised("UnicodeDecodeError")
        /\ DecodeFails =>
              /\ a_result.kind = "return"
              /\ Len(a_result.msgs) = 1
              /\ a_result.msgs[1].severity = "error"
              /\ a_result.msgs[1].name = "decode-failed"

\* The operating system could not start the tool: a run_command raised OSError
\* (the file itself had been read).
CouldNotStart == \E i \in 1..Len(a_runs) : a_runs[i].result.kind = "OSError"

\* C20: when the tool cannot be started, the check function returns exactly
\* one Message, named "command-failed", whose path is None.
C20_CannotStartIsPathlessMessage ==
    (a_pc = "done" /\ CouldNotStart) =>
        /\ a_result.kind = "return"
        /\ Len(a_result.msgs) = 1
        /\ a_result.msgs[1].name = "command-failed"
        /\ a_result.msgs[1].path = None

\* the LINTER_CODE of each adapter
LINTER_CODE(adapter) ==
    CASE adapter = "black_isort" -> "BLACK-ISORT"
      [] adapter = "docformatter" -> "DOCFORMATTER"
      [] adapter = "rustfmt" -> "RUSTFMT"
      [] adapter = "ruff_fix" -> "RUFF-FIX"
      [] adapter = "ruff" -> "RUFF"
      [] adapter = "bandit" -> "BANDIT"
      [] adapter = "cmake" -> "CMAKE"
      [] OTHER -> "none"

\* C21: every Message a check function returns, a finding or the report of a
\* failure, has the LINTER_CODE of its own adapter as code.
C21_OwnLinterCode ==
    a_pc = "done" =>
        \A i \in 1..Len(a_result.msgs) : a_result.msgs[i].code = LINTER_CODE(a_adapter)

\* An infrastructure failure: no adapter named or an unknown one, arguments
\* the adapter rejects, the tool not found with no usable fallback, or the
\* adapter ended by an exception.
InfrastructureFailure ==
    \/ cli_args.adapter \notin CliAdapters
    \/ child.failure \in {"invalid-arguments", "not-found", "crashed"}

NearestRoots ==
    {d \in cargo_tomls :
        \E i \in 1..Len(clippy_filenames) :
            /\ Len(d) < Len(clippy_filenames[i])
            /\ StartsWith(clippy_filenames[i], d)
            /\ \A e \in cargo_tomls :
                  (Len(e) < Len(clippy_filenames[i])
                   /\ StartsWith(clippy_filenames[i], e)) => Len(e) <= Len(d)}

\* C23: the roots found are the nearest enclosing Cargo.toml files of the
\* requested files, whatever the order of the request, and when check_files
\* is over clippy was run on each of them exactly once.
C23_NearestRootsOnce ==
    /\ clippy_pc \in {"found", "done"} => all_cargo_tomls = NearestRoots
    /\ clippy_pc = "done" =>
          \A d \in NearestRoots :
              Cardinality({i \in 1..Len(clippy_ran) : clippy_ran[i] = d}) = 1

\* the files of the original request, resolved
Requested == {Resolve(mypy_args.filenames[i]) : i \in 1..Len(mypy_args.filenames)}

\* C24: every finding mypy_linter displays has a path that resolves to one of
\* the files of the original request; findings for other files are not
\* displayed.
C24_OnlyRequestedFiles ==
    \A i \in 1..Len(mypy_displayed) :
        mypy_displayed[i].path # None =>
            Resolve(mypy_displayed[i].path[1]) \in Requested

\* ---------------------------------------------------------------------- C25
\* The list ruff printed without its malformed entries
WellFormedEntries(doc) == SelectSeq(doc, WellFormed)

\* C25: when one entry of a tool's structured output fails to parse, the
\* adapter skips it and still processes the others: ruff_linter returns the
\* Messages it would have returned had the malformed entry been absent, and
\* raises nothing.
C25_MalformedEntrySkipped ==
    (/\ a_pc = "done"
     /\ a_adapter = "ruff"
     /\ Len(a_runs) = 1
     /\ a_runs[1].result.kind = "CompletedProcess"
     /\ a_runs[1].result.stdout.enc = "json"
     /\ \E i \in 1..Len(a_runs[1].result.stdout.doc) :
           ~WellFormed(a_runs[1].result.stdout.doc[i]))
    => a_result =
         ruff_check_files(a_filenames, a_args.severities, a_args.explain,
                          CompletedProcess(0,
                              ToolOutput("json",
                                  WellFormedEntries(a_runs[1].result.stdout.doc)),
                              EmptyStdErr),
                          a_args.explained)

\* ---------------------------------------------------------------------- C26
\* C26: in an adapter that has --retries and gives its subprocess a deadline,
\* a command that exceeds the deadline is run again until it completes or
\* --retries retries are used up: TimeoutExpired leaves run_command only after
\* args.retries + 1 attempts.
C26_DeadlineRetried ==
    (rpc = "done" /\ opt_adapter \in DeadlineAdapters
        /\ run_result.kind = "TimeoutExpired")
    => Len(outcomes) = opt_retries + 1

IsStdout(chunk) == chunk.stream = "stdout"

\* what standard output has received, write by write
StdoutWrites == SelectSeq(sink, IsStdout)

\* the threads that have written the text of a record and not yet its end
Writing ==
    {t \in {StdoutWrites[i].thread : i \in 1..Len(StdoutWrites)} :
        \E i \in 1..Len(StdoutWrites) :
            /\ StdoutWrites[i].thread = t
            /\ StdoutWrites[i].part = "text"
            /\ \A j \in (i + 1)..Len(StdoutWrites) :
                  ~(StdoutWrites[j].thread = t /\ StdoutWrites[j].part = "end")}

\* C28: record writes to standard output never overlap: at most one thread
\* is inside the write of a record, and on standard output the text of a
\* record is followed at once by its own newline, with no write of another
\* thread or of another record in between, whatever the worker threads do.
C28_RecordWritesNeverOverlap ==
    /\ Cardinality(Writing) <= 1
    /\ \A i \in 1..Len(StdoutWrites) :
          /\ StdoutWrites[i].part \in {"text", "end"}
          /\ (StdoutWrites[i].part = "text" /\ i < Len(StdoutWrites)) =>
                StdoutWrites[i + 1] = [StdoutWrites[i] EXCEPT !.part = "end"]
          /\ StdoutWrites[i].part = "end" =>
                /\ i > 1
                /\ StdoutWrites[i - 1] = [StdoutWrites[i] EXCEPT !.part = "text"]

\* a worker thread logged between the two writes of one record
C28_Witness ==
    \E i \in 2..(Len(sink) - 1) :
        /\ sink[i].stream = "stderr" /\ sink[i].thread # 0
        /\ sink[i - 1].stream = "stdout" /\ sink[i - 1].part = "text"
        /\ sink[i + 1] = [sink[i - 1] EXCEPT !.part = "end"]

\* ---------------------------------------------------------------------- C29
\* C29: no adapter emits a patch proposal whose original and replacement are
\* textually equal; in particular grep_linter with a replace pattern returns
\* no Message with original = replacement.
C29_NoEqualPatch ==
    (a_pc = "done" /\ a_result.kind = "return") =>
        \A i \in 1..Len(a_result.msgs) :
            (a_result.msgs[i].original # None /\ a_result.msgs[i].replacement # None)
            => a_result.msgs[i].original # a_result.msgs[i].replacement

\* ---------------------------------------------------------------------- C30
\* future.result() of some unit has raised in the as_completed loop
Reraised == \E u \in yielded : Raised_(u)

\* C30: once future.result() of a unit has raised and main re-raises, nothing
\* more is written to standard output: the Messages of units that had finished
\* but were not yet collected, and of units still running, are never emitted;
\* yet the process exits only after every submitted unit has run to the end.
C30_NothingAfterReraise ==
    /\ [][Reraised => sys_stdout' = sys_stdout]_vars
    /\ [](Reraised => future \in yielded /\ Raised_(future))
    /\ [](m_pc = "exited" =>
            /\ DOMAIN futures = DOMAIN args_filenames
            /\ AllFinished)

\* the process has exited on the exception, and a unit that was never
\* collected has returned Messages of which none was printed
C30_Witness ==
    /\ m_pc = "exited"
    /\ exitcode = Some(1)
    /\ Reraised
    /\ \E u \in DOMAIN futures :
          /\ u \notin yielded
          /\ Returned_(u)
          /\ futures[u].outcome.msgs # <<>>
          /\ RecordsOf(u) = <<>>

====
